---- MODULE Spec2Model ----
(***************************************************************************)
(* Model of the event-driven read-model synchronisation of the security    *)
(* pricing integration: the Kafka consumer loop                            *)
(* (infrastructure/event_subscribers.py), the event handlers               *)
(* (application/event_handlers.py) and the JSON read-model repository      *)
(* (infrastructure/file_repositories.py, domain/models.py).                *)
(***************************************************************************)
EXTENDS Integers, Sequences, FiniteSets, TLC

(***************************************************************************)
(* Bounds and input sets                                                   *)
(***************************************************************************)
\* longest list of securities passed to a repository call
MaxSecs == 2
\* number of messages produced to the partition
MaxLog == 3

\* canonical security ids, in the order of the CoreDB rows
IdSeq == <<"A", "B">>
Ids == {IdSeq[i] : i \in 1..Len(IdSeq)}
\* ids carried by security messages; "A/1" contains the reserved delimiter
EventIds == {"A", "A/1"}

\* Python None / JSON null, the empty JSON object {} and a list, as tagged
\* values, so that a field keeps one shape whatever it holds
NoneList == [tag |-> "None", items |-> <<>>]
List(s) == [tag |-> "list", items |-> s]
NonePrice == [tag |-> "None", source |-> "", value |-> 0]
EmptyDict == [tag |-> "{}", source |-> "", value |-> 0]
Price(source, value) == [tag |-> "Price", source |-> source, value |-> value]

\* SecurityCreatedEventHandler.get_dates_to_update(num_days_back=7)
num_days_back == 7
\* datetime.date.today(); dates are day numbers
Today == num_days_back
\* the days a file is kept for: the window of SecurityCreatedEventHandler and
\* the business day after today
Dates == 1..(Today + 1)
\* the dates the repository is called for directly
RepoDates == {Today}

(***************************************************************************)
(* Sequence helpers                                                        *)
(***************************************************************************)
Range(s) == {s[i] : i \in 1..Len(s)}

SeqsUpTo(S, n) == UNION {[1..k -> S] : k \in 0..n}

RECURSIVE Filter(_, _)
\* [x for x in s if x.lw_id in keep]
Filter(s, keep) ==
    IF s = <<>> THEN <<>>
    ELSE IF Head(s).lw_id \in keep
         THEN <<Head(s)>> \o Filter(Tail(s), keep)
         ELSE Filter(Tail(s), keep)

(***************************************************************************)
(* domain/models.py                                                        *)
(***************************************************************************)
HIERARCHY == <<"OVERRIDE", "MANUAL", "FUNDRUN", "FTSE", "MARKIT", "BLOOMBERG", "RBC">>

HierarchyIndex(name) == CHOOSE i \in 1..Len(HIERARCHY) : HIERARCHY[i] = name

\* variant: the comparison of the two ranks is the other way round
PriceSource_gt_reversed(self, other) ==
    IF self \notin Range(HIERARCHY) THEN FALSE
    ELSE IF other \notin Range(HIERARCHY) THEN TRUE
    ELSE HierarchyIndex(self) > HierarchyIndex(other)

\* variant: a source of the hierarchy does not beat one outside it
PriceSource_gt_ranked_only(self, other) ==
    IF self \notin Range(HIERARCHY) THEN FALSE
    ELSE IF other \notin Range(HIERARCHY) THEN FALSE
    ELSE HierarchyIndex(self) < HierarchyIndex(other)

\* variant: a source also beats a source of its own rank
PriceSource_gt_not_strict(self, other) ==
    IF self \notin Range(HIERARCHY) THEN FALSE
    ELSE IF other \notin Range(HIERARCHY) THEN TRUE
    ELSE HierarchyIndex(self) <= HierarchyIndex(other)

\* PriceSource.__gt__
PriceSource_gt(self, other) ==
    IF self \notin Range(HIERARCHY) THEN FALSE
    ELSE IF other \notin Range(HIERARCHY) THEN TRUE
    ELSE HierarchyIndex(self) < HierarchyIndex(other)

RECURSIVE ChooseFrom(_, _)
\* the loop of SecurityWithPrices.get_chosen_price, chosen_price so far = chosen
ChooseFrom(prices, chosen) ==
    IF prices = <<>> THEN chosen
    ELSE IF chosen = NonePrice THEN ChooseFrom(Tail(prices), Head(prices))
    ELSE IF PriceSource_gt(Head(prices).source, chosen.source)
         THEN ChooseFrom(Tail(prices), Head(prices))
         ELSE ChooseFrom(Tail(prices), chosen)

\* SecurityWithPrices.get_chosen_price
get_chosen_price(swp) ==
    IF swp.curr_bday_prices = NoneList THEN NonePrice
    ELSE ChooseFrom(swp.curr_bday_prices.items, NonePrice)

\* Security.to_dict: the attributes plus an 'apx_xxx' key for every 'pms_xxx'
Security_to_dict(attributes) ==
    attributes \cup (IF "pms_security_id" \in attributes
                     THEN {"apx_security_id"} ELSE {})

\* SecurityWithPrices.to_dict
SecurityWithPrices_to_dict(swp) ==
    [lw_id |-> swp.lw_id,
     attributes |-> Security_to_dict(swp.attributes),
     data_date |-> swp.data_date,
     curr_bday_prices |-> IF swp.curr_bday_prices = NoneList THEN List(<<>>)
                          ELSE swp.curr_bday_prices,
     chosen_price |-> IF get_chosen_price(swp) = NonePrice THEN EmptyDict
                      ELSE get_chosen_price(swp),
     prev_bday_price |-> IF swp.prev_bday_price = NonePrice THEN EmptyDict
                         ELSE swp.prev_bday_price,
     audit_trail |-> IF swp.audit_trail = NoneList THEN List(<<>>)
                     ELSE swp.audit_trail]

\* SecurityWithPrices.from_dict; the derived chosen_price key is not read
SecurityWithPrices_from_dict(data) ==
    [lw_id |-> data.lw_id,
     attributes |-> data.attributes,
     data_date |-> data.data_date,
     curr_bday_prices |-> data.curr_bday_prices,
     prev_bday_price |-> IF data.prev_bday_price = EmptyDict THEN NonePrice
                         ELSE data.prev_bday_price,
     audit_trail |-> IF data.audit_trail = NoneList \/ data.audit_trail = List(<<>>)
                     THEN NoneList ELSE data.audit_trail]

RECURSIVE MapToDict(_)
\* [swp.to_dict() for swp in swps]
MapToDict(swps) ==
    IF swps = <<>> THEN <<>>
    ELSE <<SecurityWithPrices_to_dict(Head(swps))>> \o MapToDict(Tail(swps))

RECURSIVE MapFromDict(_)
\* [SecurityWithPrices.from_dict(d) for d in swps_dicts]
MapFromDict(dicts) ==
    IF dicts = <<>> THEN <<>>
    ELSE <<SecurityWithPrices_from_dict(Head(dicts))>> \o MapFromDict(Tail(dicts))

(***************************************************************************)
(* State                                                                   *)
(***************************************************************************)
VARIABLES
    \* CoreDB views (collaborators)
    held_secs,      \* lw_ids returned by CoreDBHeldSecurityRepository.get
    coredb,         \* per lw_id: 0 = no row in vw-security, else the version
                    \* of its prices / audit trail rows
    \* read-model files
    held_file,      \* held_securities_with_prices/<date>/held.json
    swp_file,       \* security_with_prices/<date>/<lw_id>.json
    \* the last repository call, and whether a view changed since
    last_call,
    views_changed,
    \* KafkaEventConsumer and the partition it consumes
    event_handler,  \* the handler the consumer was created with
    log,            \* the messages of the partition, offsets 1..Len(log)
    position,       \* offset of the next message poll() returns
    committed,      \* committed offset of the consumer group
    running,        \* the consume loop has not been left
    last,           \* what the last iteration of the loop did
    \* two consumer processes inside a repository call
    pc,             \* per process: "idle", "read" or "write"
    call,           \* per process: the call it makes or has made last
    local,          \* per process: the collection its call has read
    \* an event handler called directly
    position_table, \* CoreDB position table: per pms_position_id its row
    portfolio_table, \* CoreDB portfolio table: per portfolio_code its row
    last_handled,   \* the last call of handle: event, result, repository calls
    \* SecurityWithPrices.get_chosen_price applied to a list of prices
    choice

view_vars == <<held_secs, coredb>>
file_vars == <<held_file, swp_file>>
call_vars == <<last_call, views_changed>>
consumer_vars == <<event_handler, log, position, committed, running, last>>
race_vars == <<pc, call, local>>
handler_vars == <<position_table, portfolio_table, last_handled, choice>>
vars == <<held_secs, coredb, held_file, swp_file, last_call, views_changed,
          event_handler, log, position, committed, running, last,
          pc, call, local, position_table, portfolio_table, last_handled,
          choice>>

(***************************************************************************)
(* infrastructure/sql_repositories.py                                      *)
(***************************************************************************)
\* [app] vendor_price_sources + lw_price_sources of the configuration
relevant_price_source_names == {"BLOOMBERG", "FTSE", "MANUAL", "OVERRIDE"}

\* CoreDBSecurityWithPricesRepository.feed_is_relevant
feed_is_relevant(source) == source \in relevant_price_source_names

\* the raw feed names with source.name[:3] == 'BB_', and those containing
\* '_DERIVED'
StartsWithBB == {"BB_EQUITY", "BB_EQUITY_DERIVED"}
ContainsDerived == {"BB_EQUITY_DERIVED"}

\* CoreDBSecurityWithPricesRepository.translate_price_source
translate_price_source(name) ==
    CASE name \in StartsWithBB /\ name \notin ContainsDerived -> "BLOOMBERG"
      [] name = "FTSETMX_PX" -> "FTSE"
      [] name = "MARKIT_LOAN_CLEANPRICE" -> "MARKIT"
      [] name = "FUNDRUN_EQUITY" -> "FUNDRUN"
      [] name \in {"FIDESK_MANUALPRICE", "LW_OVERRIDE"} -> "OVERRIDE"
      [] name \in {"FIDESK_MISSINGPRICE", "LW_MANUAL"} -> "MANUAL"
      [] name = "PXAPX" -> "APX"
      [] OTHER -> name

\* rows of vw_price for one security on the current business day, by version
vw_price(version) ==
    IF version <= 1 THEN <<>>
    ELSE <<Price("BB_EQUITY", 1), Price("TXPR", 3), Price("LW_MANUAL", 2)>>

\* the PXAPX row of vw_price on the previous business day, by version
vw_price_prev(version) ==
    IF version <= 1 THEN <<>> ELSE <<Price("PXAPX", 4)>>

\* rows of the price audit entry table for one security, by version
price_audit_entries(version) ==
    IF version <= 1 THEN <<>> ELSE <<"audit1">>

RECURSIVE TranslateAll(_)
\* px.source = self.translate_price_source(px.source) for every price
TranslateAll(prices) ==
    IF prices = <<>> THEN <<>>
    ELSE <<Price(translate_price_source(Head(prices).source), Head(prices).value)>>
            \o TranslateAll(Tail(prices))

RECURSIVE RelevantOnly(_)
\* [px for px in curr_bday_prices if self.feed_is_relevant(px.source)]
RelevantOnly(prices) ==
    IF prices = <<>> THEN <<>>
    ELSE IF feed_is_relevant(Head(prices).source)
         THEN <<Head(prices)>> \o RelevantOnly(Tail(prices))
         ELSE RelevantOnly(Tail(prices))

\* the SecurityWithPrices that CoreDBSecurityWithPricesRepository.get builds
\* for one security of vw-security
CoreDBSecurityWithPrices(db, d, lw_id) ==
    [lw_id |-> lw_id,
     attributes |-> {"pms_security_id"},
     data_date |-> d,
     curr_bday_prices |-> List(RelevantOnly(TranslateAll(vw_price(db[lw_id])))),
     prev_bday_price |-> IF vw_price_prev(db[lw_id]) = <<>> THEN NonePrice
                         ELSE Head(vw_price_prev(db[lw_id])),
     audit_trail |-> List(price_audit_entries(db[lw_id]))]

\* CoreDBSecurityWithPricesRepository.get(data_date, security): the lw_ids
\* for which an entry is returned
CoreDBSecurityWithPricesRepository_get(db, lw_ids) ==
    {i \in lw_ids \cap DOMAIN db : db[i] # 0}

\* variant: every security counts as held
CoreDBHeldSecurityRepository_get_all(held, d) == Ids

\* CoreDBHeldSecurityRepository.get(data_date): the lw_ids of the result
CoreDBHeldSecurityRepository_get(held, d) == held

(***************************************************************************)
(* infrastructure/file_repositories.py,                                    *)
(* JSONHeldSecuritiesWithPricesRepository                                  *)
(***************************************************************************)
\* held.json of a date: missing, holding the JSON text of a list of dicts, or
\* holding a proper prefix of such a text (opened for writing and not yet
\* written in full), which json.loads rejects
NoFile == [exists |-> FALSE, valid_json |-> FALSE, content |-> <<>>]
File(content) == [exists |-> TRUE, valid_json |-> TRUE, content |-> content]
PartialFile == [exists |-> TRUE, valid_json |-> FALSE, content |-> <<>>]

\* days of a month of the calendar the dates are day numbers of
DaysPerMonth == 4

\* variant: the folder of the month is used for every day of it
get_read_model_file_month_only(d) == <<d \div DaysPerMonth, 0>>

\* get_read_model_file: the path <base>/<%Y%m>/<%d>/held.json of a date
get_read_model_file(d) == <<d \div DaysPerMonth, d % DaysPerMonth>>

\* get_read_model_content: the parsed content, or None when there is no file
\* or it cannot be parsed
get_read_model_content(file, d) ==
    IF ~file[d].exists \/ ~file[d].valid_json THEN NoneList
    ELSE List(file[d].content)

\* the lw_ids of the entries in the file of a date
GetIdsBefore(file, d) == {e.lw_id : e \in Range(file[d].content)}

\* JSONHeldSecuritiesWithPricesRepository.get
HeldRepo_get(file, d) ==
    IF get_read_model_content(file, d) = NoneList THEN <<>>
    ELSE MapFromDict(get_read_model_content(file, d).items)

RECURSIVE HeldOnly(_, _)
\* [s.lw_id for s in securities if s.lw_id in held_lwids]
HeldOnly(securities, held_lwids) ==
    IF securities = <<>> THEN <<>>
    ELSE IF Head(securities).lw_id \in held_lwids
         THEN <<Head(securities).lw_id>> \o HeldOnly(Tail(securities), held_lwids)
         ELSE HeldOnly(Tail(securities), held_lwids)

\* variant: every security passed is refreshed, held or not
lw_ids_to_refresh_unfiltered(held, d, securities) ==
    HeldOnly(securities, {x.lw_id : x \in Range(securities)})

\* lw_ids_to_refresh of refresh_for_securities
lw_ids_to_refresh(held, d, securities) ==
    HeldOnly(securities, CoreDBHeldSecurityRepository_get(held, d))

\* variant: the entries of the refreshed securities stay in the starting point
OtherSecs_keep_refreshed(orig_get_res, to_refresh, remove_other_secs) ==
    IF remove_other_secs THEN <<>> ELSE orig_get_res

\* variant: the starting point is always empty
OtherSecs_always_empty(orig_get_res, to_refresh, remove_other_secs) == <<>>

\* variant: remove_other_secs is ignored
OtherSecs_never_removed(orig_get_res, to_refresh, remove_other_secs) ==
    Filter(orig_get_res, {s.lw_id : s \in Range(orig_get_res)} \ Range(to_refresh))

\* the starting point res of refresh_for_securities
OtherSecs(orig_get_res, to_refresh, remove_other_secs) ==
    IF remove_other_secs THEN <<>>
    ELSE Filter(orig_get_res, {s.lw_id : s \in Range(orig_get_res)} \ Range(to_refresh))

RECURSIVE AppendRefreshed(_, _, _, _, _)
\* the loop that appends the fetched entry of each lw_id to refresh; fetched
\* are the lw_ids of securities_with_prices
AppendRefreshed(res, to_refresh, fetched, db, d) ==
    IF to_refresh = <<>> THEN res
    ELSE AppendRefreshed(
            IF Head(to_refresh) \in fetched
            THEN Append(res, CoreDBSecurityWithPrices(db, d, Head(to_refresh)))
            ELSE res,
            Tail(to_refresh), fetched, db, d)

\* the dict written for one entry: to_dict, with an empty audit_trail as null
RefreshDict(swp) ==
    LET swp_dict == SecurityWithPrices_to_dict(swp)
    IN  IF swp_dict.audit_trail = List(<<>>)
        THEN [swp_dict EXCEPT !.audit_trail = NoneList]
        ELSE swp_dict

RECURSIVE MapRefreshDict(_)
MapRefreshDict(res) ==
    IF res = <<>> THEN <<>>
    ELSE <<RefreshDict(Head(res))>> \o MapRefreshDict(Tail(res))

\* the content refresh_for_securities saves for data_date d, orig_get_res
\* being the collection it has read
refresh_content_from(orig_get_res, held, db, d, securities, remove_other_secs) ==
    LET to_refresh == lw_ids_to_refresh(held, d, securities)
        res == OtherSecs(orig_get_res, to_refresh, remove_other_secs)
        fetched == CoreDBSecurityWithPricesRepository_get(db,
                        {x.lw_id : x \in Range(securities)})
    IN  MapRefreshDict(AppendRefreshed(res, to_refresh, fetched, db, d))

refresh_content(file, held, db, d, securities, remove_other_secs) ==
    refresh_content_from(HeldRepo_get(file, d), held, db, d, securities,
                         remove_other_secs)

\* set_read_model_content: the file of d is overwritten as a whole
set_read_model_content(file, d, content) ==
    [d2 \in DOMAIN file |->
        IF get_read_model_file(d2) = get_read_model_file(d) THEN File(content)
        ELSE file[d2]]

\* JSONHeldSecuritiesWithPricesRepository.refresh_for_securities
refresh_for_securities(file, held, db, d, securities, remove_other_secs) ==
    set_read_model_content(file, d,
        refresh_content(file, held, db, d, securities, remove_other_secs))

\* JSONHeldSecuritiesWithPricesRepository.create
HeldRepo_create(file, d, securities_with_prices) ==
    set_read_model_content(file, d, MapToDict(securities_with_prices))

RECURSIVE lw_ids_to_remove(_, _)
\* the lw_ids remove_securities resolves from its securities: the lw_id, or
\* for a blank lw_id the one vw-security has for the pms_security_id
lw_ids_to_remove(securities, db) ==
    IF securities = <<>> THEN {}
    ELSE (IF Head(securities).lw_id # "" THEN {Head(securities).lw_id}
          ELSE IF db[Head(securities).pms_security_id] # 0
               THEN {Head(securities).pms_security_id}
               ELSE {})
         \cup lw_ids_to_remove(Tail(securities), db)

\* variant: a security with a blank lw_id is not looked up in vw-security
remove_content_from_by_lw_id_only(existing_swps, db, securities) ==
    Filter(existing_swps,
           {s.lw_id : s \in Range(existing_swps)}
                \ {x.lw_id : x \in Range(securities)})

\* new_swps of remove_securities, existing_swps being the collection read
remove_content_from(existing_swps, db, securities) ==
    Filter(existing_swps,
           {s.lw_id : s \in Range(existing_swps)} \ lw_ids_to_remove(securities, db))

\* JSONHeldSecuritiesWithPricesRepository.remove_securities
remove_securities(file, db, d, securities) ==
    HeldRepo_create(file, d, remove_content_from(HeldRepo_get(file, d), db, securities))

(***************************************************************************)
(* infrastructure/file_repositories.py, JSONSecurityWithPricesRepository   *)
(***************************************************************************)
\* JSONSecurityWithPricesRepository.create: <lw_id>.json of the date of swp is
\* written (json.dumps of swp.to_dict())
SwpRepo_create(files, swp) ==
    [files EXCEPT ![swp.data_date] =
        {f \in @ : f.lw_id # swp.lw_id} \cup {SecurityWithPrices_to_dict(swp)}]

(***************************************************************************)
(* application/event_handlers.py, SecurityCreatedEventHandler              *)
(***************************************************************************)
\* variant: the dates start one day late, tomorrow back to today minus 5
get_dates_to_update_from_tomorrow ==
    [k \in 1..num_days_back |-> Today + 1 - (k - 1)]

\* SecurityCreatedEventHandler.get_dates_to_update: today, today-1, ...
get_dates_to_update == [k \in 1..num_days_back |-> Today - (k - 1)]

\* '/' in sec.lw_id
HasSlash(lw_id) == lw_id = "A/1"

RECURSIVE AllAuditEntries(_, _)
\* audit_trail_repository.get(data_date=d): the entries of every security
AllAuditEntries(db, ids) ==
    IF ids = <<>> THEN <<>>
    ELSE price_audit_entries(db[Head(ids)]) \o AllAuditEntries(db, Tail(ids))

\* the SecurityWithPrices the handler builds for date d
HandlerSecurityWithPrices(db, d, lw_id) ==
    [lw_id |-> lw_id,
     attributes |-> {"modified_at"},
     data_date |-> d,
     curr_bday_prices |-> List(RelevantOnly(vw_price(db[lw_id]))),
     prev_bday_price |-> IF vw_price_prev(db[lw_id]) = <<>> THEN NonePrice
                         ELSE Head(vw_price_prev(db[lw_id])),
     audit_trail |-> List(AllAuditEntries(db, IdSeq))]

RECURSIVE UpdateDates(_, _, _, _, _, _)
\* the loop over get_dates_to_update, cut after `writes` repository writes
\* (an exception of a collaborator ends it early): per date one create in the
\* security_with_prices repository, then one refresh_for_securities
UpdateDates(files, held, db, lw_id, k, writes) ==
    IF k > num_days_back \/ writes = 0 THEN files
    ELSE LET d == get_dates_to_update[k]
             created == [files EXCEPT !.swp_file =
                            SwpRepo_create(@, HandlerSecurityWithPrices(db, d, lw_id))]
             refreshed == [created EXCEPT !.held_file =
                            refresh_for_securities(@, held, db, d,
                                <<[lw_id |-> lw_id, pms_security_id |-> lw_id]>>, FALSE)]
         IN  IF writes = 1 THEN created
             ELSE UpdateDates(refreshed, held, db, lw_id, k + 1, writes - 2)

\* SecurityCreatedEventHandler.handle; `writes` is the number of repository
\* writes after which a collaborator raises, 2 * num_days_back if none does.
\* result is the returned value, or "raise"
SecurityCreatedEventHandler_handle(files, held, db, lw_id, writes) ==
    IF HasSlash(lw_id) THEN [result |-> "True", files |-> files]
    ELSE IF lw_id \notin CoreDBHeldSecurityRepository_get(held, Today)
    THEN [result |-> "True", files |-> files]
    ELSE [result |-> IF writes < 2 * num_days_back THEN "raise" ELSE "None",
          files |-> UpdateDates(files, held, db, lw_id, 1, writes)]

(***************************************************************************)
(* infrastructure/event_subscribers.py, KafkaEventConsumer.consume         *)
(***************************************************************************)
\* what deserialize does with a message value: an Event, None, a
\* DeserializationError or any other exception
Shapes == {"Event", "None", "DeserializationError", "Exception"}

\* truth value of a handler's return value
Truthy(result) == result = "True"

\* the handler is called only for an Event (the None branch continues)
HandlerCalled(des) == des = "Event"

\* variant: the value the handler returns is not looked at
should_commit_ignoring_result(des, handled) == TRUE

\* should_commit when the loop reaches `if should_commit:`; handled is the
\* value returned by handle or handle_deserialization_error, or "raise"
should_commit(des, handled) ==
    CASE des = "Event" /\ handled # "raise" -> Truthy(handled)
      [] des = "Event" /\ handled = "raise" -> TRUE
      [] des = "DeserializationError" -> Truthy(handled)
      [] OTHER -> TRUE

\* variant: the None branch continues without committing
Commits_not_for_none(des, handled) ==
    IF des = "None" THEN FALSE
    ELSE should_commit(des, handled)

\* consumer.commit(message=msg) is called in this iteration
Commits(des, handled) ==
    IF des = "None" THEN TRUE
    ELSE should_commit(des, handled)

(***************************************************************************)
(* Inputs                                                                  *)
(***************************************************************************)
\* what CoreDB has of a security: 0 = no row in vw-security, 1 = a row but no
\* price or audit rows, 2 = a row with price and audit rows
Versions == 0..2

\* a Security with its lw_id known
Security(lw_id) == [lw_id |-> lw_id, pms_security_id |-> lw_id]
\* a Security known by its pms_security_id only (blank lw_id)
PmsSecurity(id) == [lw_id |-> "", pms_security_id |-> id]

KnownSecurities == {Security(i) : i \in Ids}
AnySecurities == KnownSecurities \cup {PmsSecurity(i) : i \in Ids}
\* the lists remove_securities is called with: a single Security (made a
\* list by the method), an empty list, and a list mixing both kinds
RemoveLists == SeqsUpTo(AnySecurities, 1)
                \cup {<<Security(IdSeq[1]), PmsSecurity(IdSeq[2])>>}

\* the point at which a collaborator of SecurityCreatedEventHandler raises
FailPoints == {0, 1, 2 * num_days_back}

Handlers == {"SecurityCreatedEventHandler", "EventHandler"}

\* message values: KafkaCoreDBSecurityCreatedEventConsumer.deserialize returns
\* an event or raises KeyError / a JSON error; the abstract deserialize of an
\* other consumer may do any of Shapes
Payloads(handler) ==
    IF handler = "SecurityCreatedEventHandler"
    THEN {[shape |-> "Event", lw_id |-> i] : i \in EventIds}
         \cup {[shape |-> "Exception", lw_id |-> ""]}
    ELSE {[shape |-> sh, lw_id |-> ""] : sh \in Shapes}

\* the consumer processes that share the read-model files
Procs == {1, 2}

\* pms_position_id of the position events
PositionIds == {1, 2}

NoCall == [op |-> "none", data_date |-> 0,
           securities |-> <<>>, remove_other_secs |-> FALSE, before_ids |-> {}]

\* names of price sources after translation: those of the hierarchy and two
\* that are not in it
PriceSourceNames == Range(HIERARCHY) \cup {"TXPR", "APX"}

\* longest curr_bday_prices given to get_chosen_price
MaxPrices == 3

\* the lists of prices of up to MaxPrices sources, the i-th with value i
PriceLists ==
    UNION {{[i \in 1..k |-> Price(f[i], i)] : f \in [1..k -> PriceSourceNames]}
            : k \in 0..MaxPrices}

\* portfolio_code of the portfolio events, and the portfolio table without
\* rows ("" = no row, else the portfolio_type of the row)
PortfolioCodes == {"P1", "P2", "P3"}
NoPortfolios == [c \in PortfolioCodes |-> ""]

\* the position table without rows, and a row that does not exist
NoRow == [sec |-> "", is_deleted |-> FALSE]
NoPositions == [i \in PositionIds |-> NoRow]

\* no handler has been called directly
NoHandled == [handler |-> "", source |-> "", data_date |-> 0, sec |-> "",
              pms_position_id |-> 0, is_deleted |-> FALSE, ts_ms |-> "",
              missing |-> "", row_cnt |-> 0, held_before |-> FALSE,
              held_after |-> FALSE, appraisal |-> <<>>, raised |-> FALSE,
              portfolio |-> <<>>, result |-> "",
              calls |-> <<>>]

\* no list of prices has been given to get_chosen_price
NoChoice == [prices |-> <<>>, chosen |-> NonePrice, done |-> FALSE]

NoIteration == [offset |-> 0, des |-> "", handler |-> "not_called",
                result |-> "", raised |-> "", committed |-> FALSE]

Init ==
    /\ held_secs = {}
    /\ coredb = [i \in Ids |-> 0]
    /\ held_file = [d \in Dates |-> NoFile]
    /\ swp_file = [d \in Dates |-> {}]
    /\ last_call = NoCall
    /\ views_changed = FALSE
    /\ event_handler \in Handlers
    /\ log = <<>>
    /\ position = 1
    /\ committed = 1
    /\ running = TRUE
    /\ last = NoIteration
    /\ pc = [p \in Procs |-> "idle"]
    /\ call = [p \in Procs |-> NoCall]
    /\ local = [p \in Procs |-> <<>>]
    /\ position_table = NoPositions
    /\ portfolio_table = NoPortfolios
    /\ last_handled = NoHandled
    /\ choice = NoChoice

(***************************************************************************)
(* Collaborator changes                                                    *)
(***************************************************************************)
\* a position is opened or closed: the held securities change
HeldChange ==
    /\ \E h \in SUBSET Ids : h # held_secs /\ held_secs' = h
    /\ views_changed' = TRUE
    /\ UNCHANGED <<coredb, file_vars, last_call, consumer_vars,
                   race_vars, handler_vars>>

\* a security or its prices are loaded, changed or deleted in CoreDB
CoreDBChange ==
    /\ \E i \in Ids, v \in Versions :
          /\ v # coredb[i]
          /\ coredb' = [coredb EXCEPT ![i] = v]
    /\ views_changed' = TRUE
    /\ UNCHANGED <<held_secs, file_vars, last_call, consumer_vars,
                   race_vars, handler_vars>>

(***************************************************************************)
(* Repository calls                                                        *)
(***************************************************************************)
PersistedIds(file, d) == {e.lw_id : e \in Range(file[d].content)}

RefreshForSecurities(d, securities, remove_other_secs) ==
    /\ held_file' = refresh_for_securities(held_file, held_secs, coredb, d,
                                           securities, remove_other_secs)
    /\ last_call' = [op |-> "refresh", data_date |-> d,
                     securities |-> securities,
                     remove_other_secs |-> remove_other_secs,
                     before_ids |-> PersistedIds(held_file, d)]
    /\ views_changed' = FALSE
    /\ UNCHANGED <<view_vars, swp_file, consumer_vars, race_vars,
                   handler_vars>>

RemoveSecurities(d, securities) ==
    /\ held_file' = remove_securities(held_file, coredb, d, securities)
    /\ last_call' = [op |-> "remove", data_date |-> d,
                     securities |-> securities, remove_other_secs |-> FALSE,
                     before_ids |-> PersistedIds(held_file, d)]
    /\ views_changed' = FALSE
    /\ UNCHANGED <<view_vars, swp_file, consumer_vars, race_vars,
                   handler_vars>>

NextRepo ==
    \/ HeldChange
    \/ CoreDBChange
    \/ \E d \in RepoDates, securities \in SeqsUpTo(KnownSecurities, MaxSecs),
          remove_other_secs \in BOOLEAN :
            RefreshForSecurities(d, securities, remove_other_secs)
    \/ \E d \in RepoDates, securities \in RemoveLists :
            RemoveSecurities(d, securities)

InitRepo == Init /\ event_handler = "EventHandler"

\* the repository called directly, with the CoreDB views changing
SpecRepo == InitRepo /\ [][NextRepo]_vars

(***************************************************************************)
(* The consumer loop                                                       *)
(***************************************************************************)
\* a producer appends a message to the partition
Produce ==
    /\ Len(log) < MaxLog
    /\ \E m \in Payloads(event_handler) : log' = Append(log, m)
    /\ UNCHANGED <<view_vars, file_vars, call_vars, event_handler, position,
                   committed, running, last, race_vars, handler_vars>>

\* one iteration of the while loop of consume for a polled message with a
\* value: deserialize, handle, commit or not
Consume ==
    /\ running
    /\ position <= Len(log)
    /\ LET msg == log[position]
           des == msg.shape
       IN  \E writes \in FailPoints, outcome \in {"True", "False", "raise"} :
            LET sec == SecurityCreatedEventHandler_handle(
                            [held_file |-> held_file, swp_file |-> swp_file],
                            held_secs, coredb, msg.lw_id, writes)
                \* the value handle or handle_deserialization_error returns
                handled ==
                    IF des = "Event" /\ event_handler = "SecurityCreatedEventHandler"
                    THEN sec.result ELSE outcome
                \* handle_deserialization_error itself raises (the handler
                \* has no such method): the exception leaves the loop
                escapes == des = "DeserializationError" /\ handled = "raise"
                commit == ~escapes /\ Commits(des, handled)
                \* the exception the try block has caught: the read-back of
                \* JSONSecurityWithPricesRepository.create finds no file
                \* after the first write (CreateFailedException), or a
                \* collaborator or deserialize raises another Exception
                raised ==
                    IF des = "Exception" THEN "Exception"
                    ELSE IF des = "Event" /\ handled = "raise"
                    THEN (IF event_handler = "SecurityCreatedEventHandler" /\ writes = 1
                          THEN "CreateFailedException" ELSE "Exception")
                    ELSE ""
            IN  /\ des \in {"None", "Exception"} => outcome = "True"
                /\ des = "Event" /\ event_handler = "SecurityCreatedEventHandler"
                        => outcome = "True"
                /\ ~(des = "Event" /\ event_handler = "SecurityCreatedEventHandler")
                        => writes = 0
                /\ IF des = "Event" /\ event_handler = "SecurityCreatedEventHandler"
                   THEN /\ held_file' = sec.files.held_file
                        /\ swp_file' = sec.files.swp_file
                   ELSE UNCHANGED file_vars
                /\ position' = position + 1
                /\ committed' = IF commit THEN position + 1 ELSE committed
                /\ running' = ~escapes
                /\ last' = [offset |-> position, des |-> des,
                            handler |-> IF ~HandlerCalled(des) THEN "not_called"
                                        ELSE IF handled = "raise" THEN "raised"
                                        ELSE "returned",
                            result |-> IF des \in {"Event", "DeserializationError"}
                                       THEN handled ELSE "",
                            raised |-> raised,
                            committed |-> commit]
    /\ UNCHANGED <<view_vars, call_vars, event_handler, log,
                   race_vars, handler_vars>>

\* the process is restarted (or the group rebalances): consumption resumes at
\* the committed offset
Restart ==
    /\ position # committed \/ ~running
    /\ position' = committed
    /\ running' = TRUE
    /\ UNCHANGED <<view_vars, file_vars, call_vars, event_handler, log,
                   committed, last, race_vars, handler_vars>>

Next ==
    \/ Produce
    \/ Consume
    \/ Restart
    \/ HeldChange
    \/ CoreDBChange

Spec == Init /\ [][Next]_vars

(***************************************************************************)
(* Two consumer processes calling the repository concurrently              *)
(***************************************************************************)
\* variant: the collection is read again when it is written
WriteBase_reread(own, file, d) == HeldRepo_get(file, d)

\* the collection a call computes its content from when it writes: the one
\* it has read before (orig_get_res, existing_swps), whatever the file is now
WriteBase(own, file, d) == own

\* the content a call saves, computed from the collection `base`
ContentOf(c, base, held, db) ==
    IF c.op = "refresh"
    THEN refresh_content_from(base, held, db, c.data_date, c.securities,
                              c.remove_other_secs)
    ELSE MapToDict(remove_content_from(base, db, c.securities))

\* a process enters refresh_for_securities or remove_securities
Begin(p) ==
    /\ pc[p] = "idle"
    /\ \E op \in {"refresh", "remove"}, d \in RepoDates,
          securities \in SeqsUpTo(KnownSecurities, 1) \ {<<>>},
          remove_other_secs \in BOOLEAN :
            /\ op = "remove" => ~remove_other_secs
            /\ call' = [call EXCEPT ![p] =
                    [op |-> op, data_date |-> d,
                     securities |-> securities,
                     remove_other_secs |-> remove_other_secs,
                     before_ids |-> {}]]
    /\ pc' = [pc EXCEPT ![p] = "read"]
    /\ UNCHANGED <<view_vars, file_vars, call_vars, consumer_vars,
                   local, handler_vars>>

\* self.get(data_date): the process reads the whole collection
Read(p) ==
    /\ pc[p] = "read"
    /\ local' = [local EXCEPT ![p] = HeldRepo_get(held_file, call[p].data_date)]
    /\ pc' = [pc EXCEPT ![p] = "write"]
    /\ UNCHANGED <<view_vars, file_vars, call_vars, consumer_vars,
                   call, handler_vars>>

\* set_read_model_content: the process overwrites the whole collection (and
\* reads it back to return it)
Write(p) ==
    /\ pc[p] = "write"
    /\ held_file' = set_read_model_content(held_file, call[p].data_date,
            ContentOf(call[p],
                      WriteBase(local[p], held_file, call[p].data_date),
                      held_secs, coredb))
    /\ pc' = [pc EXCEPT ![p] = "idle"]
    /\ UNCHANGED <<view_vars, swp_file, call_vars, consumer_vars,
                   call, local, handler_vars>>

NextRace ==
    \/ \E p \in Procs : Begin(p)
    \/ \E p \in Procs : Read(p)
    \/ \E p \in Procs : Write(p)

\* the CoreDB views stay as they are while the two processes run
InitRace ==
    /\ held_secs \in SUBSET Ids
    /\ coredb \in [Ids -> Versions]
    /\ held_file = [d \in Dates |-> NoFile]
    /\ swp_file = [d \in Dates |-> {}]
    /\ last_call = NoCall
    /\ views_changed = FALSE
    /\ event_handler = "EventHandler"
    /\ log = <<>>
    /\ position = 1
    /\ committed = 1
    /\ running = TRUE
    /\ last = NoIteration
    /\ pc = [p \in Procs |-> "idle"]
    /\ call = [p \in Procs |-> NoCall]
    /\ local = [p \in Procs |-> <<>>]
    /\ position_table = NoPositions
    /\ portfolio_table = NoPortfolios
    /\ last_handled = NoHandled
    /\ choice = NoChoice

SpecRace == InitRace /\ [][NextRace]_vars

(***************************************************************************)
(* Properties of refresh_for_securities                                    *)
(***************************************************************************)
\* the step is a call of op that changes the state: last_call' describes it
\* (a call that is not seen here repeats the last one, the views unchanged,
\* and leaves every variable as it is)
Called(op) ==
    /\ last_call'.op = op
    /\ ~views_changed'
    /\ views_changed \/ last_call' # last_call \/ held_file' # held_file

CallIds(c) == {x.lw_id : x \in Range(c.securities)}

\* the entries of the given lw_ids that get() returns for the date of the call
Entries(file, d, lw_ids) == Filter(HeldRepo_get(file, d), lw_ids)

\* the entry get() returns for a freshly fetched SecurityWithPrices once it
\* is persisted
Persisted(swp) == SecurityWithPrices_from_dict(RefreshDict(swp))

\* C7: refresh_for_securities(d, S, remove_other_secs) applied again with the
\* same arguments, the held snapshot and the upstream SecurityWithPrices
\* unchanged, would save the collection that is already persisted for d.
C7_RefreshIdempotent ==
    (last_call.op = "refresh" /\ ~views_changed) =>
        refresh_content(held_file, held_secs, coredb, last_call.data_date,
                        last_call.securities, last_call.remove_other_secs)
            = held_file[last_call.data_date].content

\* a refresh that kept another security's entry and appended a fetched one
C7_Witness ==
    /\ last_call.op = "refresh" /\ ~views_changed
    /\ ~last_call.remove_other_secs
    /\ last_call.securities = <<Security("A")>>
    /\ last_call.before_ids = {"A", "B"}
    /\ PersistedIds(held_file, last_call.data_date) = {"A", "B"}

C9_FullReplace ==
    (last_call.op = "refresh" /\ last_call.remove_other_secs) =>
        PersistedIds(held_file, last_call.data_date) \subseteq CallIds(last_call)

\* A and B were persisted, A was refreshed with remove_other_secs and is
\* the only entry left
C9_Witness ==
    /\ last_call.op = "refresh" /\ last_call.remove_other_secs
    /\ last_call.securities = <<Security("A")>>
    /\ last_call.before_ids = {"A", "B"}
    /\ PersistedIds(held_file, last_call.data_date) = {"A"}

\* C10: a security passed to refresh_for_securities(d, S, *) that is not in
\* the held snapshot of d gets no freshly fetched entry: its entries are the
\* ones it had (none with remove_other_secs).
C10_HeldFilter ==
    [][ Called("refresh") =>
            \A s \in CallIds(last_call') \ held_secs :
                Entries(held_file', last_call'.data_date, {s}) =
                    IF last_call'.remove_other_secs THEN <<>>
                    ELSE Entries(held_file, last_call'.data_date, {s}) ]_vars

\* B was passed although not held while CoreDB has a row for it, A was held
\* and refreshed: only A is persisted
C10_Witness ==
    /\ last_call.op = "refresh" /\ ~views_changed
    /\ last_call.securities = <<Security("A"), Security("B")>>
    /\ held_secs = {"A"}
    /\ coredb["B"] # 0 /\ coredb["A"] # 0
    /\ last_call.before_ids = {}
    /\ PersistedIds(held_file, last_call.data_date) = {"A"}

(***************************************************************************)
(* Properties of the consumer loop                                         *)
(***************************************************************************)
\* C1: when deserialize or the handler raises an exception other than
\* DeserializationError, the offset of the message is not committed.
C1_NoCommitOnException ==
    (last.des = "Exception" \/ last.handler = "raised") => ~last.committed

\* C2: when deserialize returns None the offset of the message is committed
\* and the handler is not called.
C2_NoEventCommitted ==
    last.des = "None" =>
        /\ last.committed
        /\ last.handler = "not_called"
        /\ committed > last.offset

\* the second message of the partition held no event and was committed
C2_Witness ==
    /\ last.des = "None" /\ last.offset = 2
    /\ last.committed /\ committed = 3

\* C3: when the handler returns, the offset of the message is committed if
\* and only if it returned True.
C3_CommitIffTrue ==
    (last.des = "Event" /\ last.handler = "returned") =>
        (last.committed <=> last.result = "True")

\* a handler returned False and the offset stayed where it was
C3_Witness ==
    /\ last.des = "Event" /\ last.handler = "returned"
    /\ last.result = "False"
    /\ ~last.committed /\ committed <= last.offset

\* C4: after a message that was not committed, the next message handled is
\* that same message, and the committed offset moves by one message at a
\* time: never past a message that was not committed.
C4_NoAdvancePastUncommitted ==
    [][ /\ committed' # committed => committed' = committed + 1
        /\ (last' # last /\ last.offset # 0 /\ ~last.committed)
                => last'.offset = last.offset ]_vars

\* C5: SecurityCreatedEventHandler.handle returns True whenever it returns.
C5_SecurityHandlerReturnsTrue ==
    (event_handler = "SecurityCreatedEventHandler" /\ last.handler = "returned")
        => last.result = "True"

(***************************************************************************)
(* Properties of concurrent repository calls                               *)
(***************************************************************************)
\* C6: a call writes the whole collection as computed from what it has read
\* before, whatever another process has written since: of two concurrent
\* calls that both read and then both write, the one that writes last wins,
\* and an entry the other has written meanwhile (of a security that was not
\* in the collection read and is not refreshed by the call) is lost.
C6_LastWriteWins ==
    [][ \A p \in Procs :
          (pc[p] = "write" /\ pc'[p] = "idle") =>
              LET d == call[p].data_date
              IN  /\ held_file'[d].content =
                        ContentOf(call[p], local[p], held_secs, coredb)
                  /\ PersistedIds(held_file', d) \subseteq
                        {e.lw_id : e \in Range(local[p])} \cup CallIds(call[p]) ]_vars

\* both processes have read the empty collection, process 1 has refreshed A,
\* process 2 has refreshed B, both held and in CoreDB: the persisted
\* collection holds B only
C6_Witness ==
    /\ pc = [p \in Procs |-> "idle"]
    /\ call[1].op = "refresh" /\ call[1].securities = <<Security("A")>>
    /\ call[2].op = "refresh" /\ call[2].securities = <<Security("B")>>
    /\ ~call[1].remove_other_secs /\ ~call[2].remove_other_secs
    /\ call[1].data_date = call[2].data_date
    /\ local[1] = <<>> /\ local[2] = <<>>
    /\ held_secs = {"A", "B"}
    /\ coredb["A"] # 0 /\ coredb["B"] # 0
    /\ PersistedIds(held_file, call[1].data_date) = {"B"}

(***************************************************************************)
(* SecurityWithPrices.get_chosen_price applied to lists of prices          *)
(***************************************************************************)
\* the variables of the consumer, the repository calls and the processes at
\* rest
ConsumerAtRest ==
    /\ event_handler = "EventHandler"
    /\ log = <<>>
    /\ position = 1
    /\ committed = 1
    /\ running = TRUE
    /\ last = NoIteration

RepositoryAtRest ==
    /\ held_file = [d \in Dates |-> NoFile]
    /\ swp_file = [d \in Dates |-> {}]
    /\ last_call = NoCall
    /\ views_changed = FALSE
    /\ pc = [p \in Procs |-> "idle"]
    /\ call = [p \in Procs |-> NoCall]
    /\ local = [p \in Procs |-> <<>>]

\* a SecurityWithPrices is built with curr_bday_prices None or a list
InitChoose ==
    /\ choice \in {[prices |-> p, chosen |-> NonePrice, done |-> FALSE] :
                        p \in {NoneList} \cup {List(l) : l \in PriceLists}}
    /\ held_secs = {}
    /\ coredb = [i \in Ids |-> 0]
    /\ position_table = NoPositions
    /\ portfolio_table = NoPortfolios
    /\ last_handled = NoHandled
    /\ ConsumerAtRest
    /\ RepositoryAtRest

\* get_chosen_price is called
ChoosePrice ==
    /\ ~choice.done
    /\ choice' = [choice EXCEPT
                    !.chosen = get_chosen_price([curr_bday_prices |-> choice.prices]),
                    !.done = TRUE]
    /\ UNCHANGED <<view_vars, file_vars, call_vars, consumer_vars, race_vars,
                   position_table, portfolio_table,
                   last_handled>>

NextChoose == ChoosePrice

SpecChoose == InitChoose /\ [][NextChoose]_vars

\* source a comes earlier in the hierarchy than source b
Earlier(a, b) ==
    \E i, j \in 1..Len(HIERARCHY) : i < j /\ HIERARCHY[i] = a /\ HIERARCHY[j] = b

\* the chosen price of a list of two prices has been computed
ChosenOfTwo ==
    choice.done /\ choice.prices.tag = "list" /\ Len(choice.prices.items) = 2

\* C11: of two prices from sources a and b of the hierarchy, a earlier than b,
\* the chosen price is the one from a, whichever comes first in the list.
C11_EarlierSourceChosen ==
    ChosenOfTwo =>
        \A i, j \in 1..2 :
            Earlier(choice.prices.items[i].source, choice.prices.items[j].source)
                => choice.chosen = choice.prices.items[i]

\* BLOOMBERG then OVERRIDE: the second price is chosen
C11_Witness ==
    /\ ChosenOfTwo
    /\ choice.prices.items[1].source = "BLOOMBERG"
    /\ choice.prices.items[2].source = "OVERRIDE"
    /\ choice.chosen = choice.prices.items[2]

\* C12: of a price from a source of the hierarchy and a price from a source
\* outside it, the chosen price is the one from the hierarchy, whichever comes
\* first in the list.
C12_RankedBeatsUnranked ==
    ChosenOfTwo =>
        \A i, j \in 1..2 :
            ( /\ choice.prices.items[i].source \in Range(HIERARCHY)
              /\ choice.prices.items[j].source \notin Range(HIERARCHY) )
                => choice.chosen = choice.prices.items[i]

\* TXPR (not in the hierarchy) then RBC (last of it): RBC is chosen
C12_Witness ==
    /\ ChosenOfTwo
    /\ choice.prices.items[1].source = "TXPR"
    /\ choice.prices.items[2].source = "RBC"
    /\ choice.chosen = choice.prices.items[2]

(***************************************************************************)
(* application/event_handlers.py, PriceBatchCreatedEventHandler            *)
(***************************************************************************)
\* the calendar table: days 5 and 6 are a weekend, today (7) is a Monday
Weekend == {5, 6}

\* get_next_bday: next_bday of the calendar row of ref_date
get_next_bday(ref_date) ==
    CHOOSE n \in (ref_date + 1)..(ref_date + 3) :
        n \notin Weekend /\ \A m \in (ref_date + 1)..(n - 1) : m \in Weekend

\* day number of datetime.date(year=2023, month=7, day=27)
TimesaverDate == 2

\* a repository call made by a handler
RepoCall(op, d, securities, remove_other_secs) ==
    [op |-> op, data_date |-> d, securities |-> securities,
     remove_other_secs |-> remove_other_secs]

\* PriceBatchCreatedEventHandler.translate_price_source
PriceBatch_translate_price_source(name) ==
    CASE name \in StartsWithBB /\ name \notin ContainsDerived -> "BLOOMBERG"
      [] name = "FTSETMX_PX" -> "FTSE"
      [] name = "MARKIT_LOAN_CLEANPRICE" -> "MARKIT"
      [] name = "FUNDRUN_EQUITY" -> "FUNDRUN"
      [] name \in {"FIDESK_MANUALPRICE", "LW_OVERRIDE"} -> "OVERRIDE"
      [] name \in {"FIDESK_MISSINGPRICE", "LW_MANUAL"} -> "MANUAL"
      [] name = "PXAPX" -> "APX"
      [] OTHER -> name

\* PriceBatchCreatedEventHandler.feed_is_relevant
PriceBatch_feed_is_relevant(source) == source \in relevant_price_source_names

\* variant: every feed is processed
PriceBatch_is_processed_always(translated_source) == TRUE

\* the source is relevant or the reference feed: the batch is processed
PriceBatch_is_processed(translated_source) ==
    PriceBatch_feed_is_relevant(translated_source) \/ translated_source = "APX"

\* variant: the date of the batch is used for every feed
PriceBatch_data_date_unshifted(translated_source, batch_date) == batch_date

\* data_date of a batch that is processed
PriceBatch_data_date(translated_source, batch_date) ==
    IF PriceBatch_feed_is_relevant(translated_source) THEN batch_date
    ELSE get_next_bday(batch_date)

RECURSIVE BatchSecurities(_, _, _)
\* secs: the securities of vw-security with a price row of the source of the
\* batch (price_repository.get, then security_repository.get(lw_id=lw_ids))
BatchSecurities(db, source, ids) ==
    IF ids = <<>> THEN <<>>
    ELSE (IF /\ db[Head(ids)] # 0
             /\ \E px \in Range(vw_price(db[Head(ids)]))
                        \cup Range(vw_price_prev(db[Head(ids)])) : px.source = source
          THEN <<Security(Head(ids))>> ELSE <<>>)
         \o BatchSecurities(db, source, Tail(ids))

\* PriceBatchCreatedEventHandler.handle: the value returned, the read-model
\* file after it and the repository calls made
PriceBatchCreatedEventHandler_handle(file, held, db, source, batch_date) ==
    LET translated_source == PriceBatch_translate_price_source(source)
        data_date == PriceBatch_data_date(translated_source, batch_date)
        secs == BatchSecurities(db, source, IdSeq)
    IN  IF ~PriceBatch_is_processed(translated_source)
        THEN [result |-> "True", file |-> file, calls |-> <<>>]
        ELSE IF data_date < TimesaverDate
        THEN [result |-> "True", file |-> file, calls |-> <<>>]
        ELSE IF source = "TXPR"
        THEN [result |-> "True", file |-> file, calls |-> <<>>]
        ELSE [result |-> "True",
              file |-> refresh_for_securities(file, held, db, data_date, secs, FALSE),
              calls |-> <<RepoCall("refresh", data_date, secs, FALSE)>>]

\* raw source names of the batches
BatchSources == {"BB_EQUITY", "BB_EQUITY_DERIVED", "LW_MANUAL", "TXPR", "PXAPX"}
\* dates of the batches: a day before the timesaver date, and a Friday
BatchDates == {0, 4}

\* the consumer of price batches handles an event
HandlePriceBatch ==
    \E source \in BatchSources, batch_date \in BatchDates :
        LET res == PriceBatchCreatedEventHandler_handle(held_file, held_secs,
                        coredb, source, batch_date)
        IN  /\ held_file' = res.file
            /\ last_handled' = [NoHandled EXCEPT
                    !.handler = "PriceBatchCreatedEventHandler",
                    !.source = source, !.data_date = batch_date,
                    !.result = res.result, !.calls = res.calls]
            /\ UNCHANGED <<view_vars, swp_file, call_vars, consumer_vars,
                           race_vars, position_table, portfolio_table,
                           choice>>

InitHandlers ==
    /\ held_secs = {}
    /\ coredb = [i \in Ids |-> 0]
    /\ position_table = NoPositions
    /\ portfolio_table = NoPortfolios
    /\ last_handled = NoHandled
    /\ choice = NoChoice
    /\ ConsumerAtRest
    /\ RepositoryAtRest

NextPriceBatch ==
    \/ HandlePriceBatch
    \/ HeldChange
    \/ CoreDBChange

\* the price batch handler called directly, with the CoreDB views changing
SpecPriceBatch == InitHandlers /\ [][NextPriceBatch]_vars

\* the last handler call was one of PriceBatchCreatedEventHandler
PriceBatchHandled == last_handled.handler = "PriceBatchCreatedEventHandler"

\* the step is a call of a handler (the views stay as they are)
HandlerStep == held_secs' = held_secs /\ coredb' = coredb

\* C13: for a batch whose translated source is relevant, the handler calls
\* refresh_for_securities exactly once, with the date of the batch and the
\* securities that have prices in the batch, and returns True.
C13_RelevantBatchRefreshed ==
    [][ ( /\ HandlerStep
          /\ last_handled'.handler = "PriceBatchCreatedEventHandler"
          /\ PriceBatch_translate_price_source(last_handled'.source)
                \in relevant_price_source_names )
        => /\ last_handled'.result = "True"
           /\ Len(last_handled'.calls) = 1
           /\ last_handled'.calls[1].op = "refresh"
           /\ last_handled'.calls[1].data_date = last_handled'.data_date
           /\ last_handled'.calls[1].securities
                = BatchSecurities(coredb, last_handled'.source, IdSeq) ]_vars

\* C14: every refresh_for_securities call made for a batch of the reference
\* feed PXAPX is for the next business day after the date of the batch: a
\* later day that is no weekend day, with only weekend days in between.
C14_ReferenceFeedNextBday ==
    (PriceBatchHandled /\ last_handled.source = "PXAPX") =>
        \A i \in 1..Len(last_handled.calls) :
            LET d == last_handled.calls[i].data_date
            IN  /\ d > last_handled.data_date
                /\ d \notin Weekend
                /\ \A m \in (last_handled.data_date + 1)..(d - 1) : m \in Weekend

\* a PXAPX batch of Friday 4 was refreshed for Monday 7, and the entry of a
\* held security with a PXAPX price is in the collection of day 7
C14_Witness ==
    /\ PriceBatchHandled /\ last_handled.source = "PXAPX"
    /\ last_handled.data_date = 4
    /\ Len(last_handled.calls) = 1
    /\ last_handled.calls[1].data_date = 7
    /\ last_handled.calls[1].securities = <<Security("A")>>
    /\ PersistedIds(held_file, 7) = {"A"}
    /\ held_file[4] = NoFile

\* C15: for a batch whose translated source is neither relevant nor the
\* reference feed, the handler returns True, makes no repository call and
\* leaves the read-model files as they are.
C15_IrrelevantBatchIgnored ==
    [][ ( /\ HandlerStep
          /\ last_handled'.handler = "PriceBatchCreatedEventHandler"
          /\ PriceBatch_translate_price_source(last_handled'.source)
                \notin relevant_price_source_names \cup {"APX"} )
        => /\ last_handled'.result = "True"
           /\ last_handled'.calls = <<>>
           /\ UNCHANGED file_vars ]_vars

\* a BB_EQUITY_DERIVED batch of day 4 was ignored although securities with
\* prices are held and the collection of day 4 exists
C15_Witness ==
    /\ PriceBatchHandled /\ last_handled.source = "BB_EQUITY_DERIVED"
    /\ last_handled.data_date = 4
    /\ last_handled.result = "True" /\ last_handled.calls = <<>>
    /\ held_secs = {"A", "B"} /\ coredb["A"] = 2
    /\ PersistedIds(held_file, 4) = {"A"}

(***************************************************************************)
(* SecurityCreatedEventHandler called directly                             *)
(***************************************************************************)
\* the consumer of security events handles an event
HandleSecurityCreated ==
    \E lw_id \in EventIds, writes \in FailPoints :
        LET res == SecurityCreatedEventHandler_handle(
                        [held_file |-> held_file, swp_file |-> swp_file],
                        held_secs, coredb, lw_id, writes)
        IN  /\ held_file' = res.files.held_file
            /\ swp_file' = res.files.swp_file
            /\ last_handled' = [NoHandled EXCEPT
                    !.handler = "SecurityCreatedEventHandler",
                    !.sec = lw_id,
                    !.held_before = lw_id \in held_secs,
                    !.result = res.result]
            /\ UNCHANGED <<view_vars, call_vars, consumer_vars, race_vars,
                           position_table, portfolio_table, choice>>

NextSecurity ==
    \/ HandleSecurityCreated
    \/ HeldChange
    \/ CoreDBChange

\* the security handler called directly, with the CoreDB views changing
SpecSecurity == InitHandlers /\ [][NextSecurity]_vars

\* C16: for a security event whose lw_id contains '/' or whose security is
\* not among the held securities, the handler returns True and writes to no
\* repository: both read-model file trees stay as they are.
C16_NotHeldOrSlashSkipped ==
    [][ ( /\ HandlerStep
          /\ last_handled'.handler = "SecurityCreatedEventHandler"
          /\ (HasSlash(last_handled'.sec) \/ last_handled'.sec \notin held_secs) )
        => /\ last_handled'.result = "True"
           /\ UNCHANGED file_vars ]_vars

\* the event of security A is skipped now that A is no longer held; its files
\* written while it was held are still there
C16_Witness ==
    /\ last_handled.handler = "SecurityCreatedEventHandler"
    /\ last_handled.sec = "A" /\ ~last_handled.held_before
    /\ last_handled.result = "True"
    /\ coredb["A"] = 2
    /\ PersistedIds(held_file, Today) = {"A"}
    /\ swp_file[Today] # {}

(***************************************************************************)
(* Properties of remove_securities                                         *)
(***************************************************************************)
\* the lw_ids that the securities of a call stand for: the lw_id where there
\* is one, else the lw_id vw-security has for the pms_security_id
ResolvedIds(securities, db) ==
    {x.lw_id : x \in {y \in Range(securities) : y.lw_id # ""}}
        \cup {x.pms_security_id :
                x \in {y \in Range(securities) :
                            y.lw_id = "" /\ db[y.pms_security_id] # 0}}

\* the lw_ids of the entries get() returns for d
GetIds(file, d) == {e.lw_id : e \in Range(HeldRepo_get(file, d))}

LiveHeld(table) ==
    {table[i].sec : i \in {j \in DOMAIN table :
                                table[j].sec # "" /\ ~table[j].is_deleted}}

\* CoreDBLiveHeldSecurityRepository.get(lw_id='', pms_security_id): the rows
\* of vw_held_security of the security
CoreDBLiveHeldSecurityRepository_get(table, pms_security_id) ==
    IF pms_security_id \in LiveHeld(table) THEN <<Security(pms_security_id)>>
    ELSE <<>>

\* CoreDBHeldSecurityRepository.get(data_date): the securities of the
\* appraisal of the date when it has rows, else those of vw_held_security
HeldForDate(appraisal_held, table) ==
    IF appraisal_held # {} THEN appraisal_held ELSE LiveHeld(table)

\* CoreDBPositionRepository.upsert: the row of the position is written when
\* the statement affects a row
CoreDBPositionRepository_upsert(table, pms_position_id, pms_security_id, is_deleted, row_cnt) ==
    IF row_cnt = 0 THEN table
    ELSE [table EXCEPT ![pms_position_id] =
            [sec |-> pms_security_id, is_deleted |-> is_deleted]]

\* CoreDBSecurityRepository.get(pms_security_id=...): the rows of vw-security
CoreDBSecurityRepository_get(db, pms_security_id) ==
    IF db[pms_security_id] # 0 THEN <<Security(pms_security_id)>> ELSE <<>>

\* variant: every delete removes the security
Position_should_remove_any_delete(is_deleted, sec_held_before, sec_held_after) ==
    is_deleted

\* the security is no longer held due to this delete event
Position_should_remove(is_deleted, sec_held_before, sec_held_after) ==
    is_deleted /\ sec_held_before /\ ~sec_held_after

\* variant: every create of a held security refreshes it
Position_should_refresh_any_create(is_deleted, sec_held_before, sec_held_after) ==
    ~is_deleted /\ sec_held_after

\* the security is newly held due to this create event
Position_should_refresh(is_deleted, sec_held_before, sec_held_after) ==
    ~is_deleted /\ ~sec_held_before /\ sec_held_after

\* variant: the early return comes after remove_securities has emptied the
\* collection of today
PositionSkipped_after_remove(result, file, table) ==
    [result |-> result,
     file |-> [file EXCEPT ![Today] = [@ EXCEPT !.content = <<>>]],
     table |-> table, row_cnt |-> -1,
     held_before |-> FALSE, held_after |-> FALSE,
     calls |-> <<RepoCall("remove", Today, <<>>, FALSE)>>]

\* what handle gives when it returns before the upsert
PositionSkipped(result, file, table) ==
    [result |-> result, file |-> file, table |-> table, row_cnt |-> -1,
     held_before |-> FALSE, held_after |-> FALSE, calls |-> <<>>]

\* PositionEventHandler.handle. ts_ms is "missing" (no such attribute: the
\* KeyError is caught), "old" (before 1694551006580) or "new"; missing is the
\* method a repository lacks, "" if none; row_cnt is the rowcount of the upsert
PositionEventHandler_handle(file, table, appraisal_held, db, pms_position_id, pms_security_id, is_deleted, ts_ms, missing, row_cnt) ==
    IF ts_ms = "missing" THEN PositionSkipped("True", file, table)
    ELSE IF ts_ms = "old" THEN PositionSkipped("True", file, table)
    ELSE IF missing = "upsert" THEN PositionSkipped("False", file, table)
    ELSE IF missing = "remove_securities" THEN PositionSkipped("False", file, table)
    ELSE IF missing = "refresh_for_securities" THEN PositionSkipped("False", file, table)
    ELSE
    LET sec_held_before ==
            Len(CoreDBLiveHeldSecurityRepository_get(table, pms_security_id)) # 0
        upserted == CoreDBPositionRepository_upsert(table, pms_position_id,
                        pms_security_id, is_deleted, row_cnt)
        sec_held_after ==
            Len(CoreDBLiveHeldSecurityRepository_get(upserted, pms_security_id)) # 0
        sec == CoreDBSecurityRepository_get(db, pms_security_id)
        today == Today
    IN  IF row_cnt = 0
        THEN [result |-> "False", file |-> file, table |-> upserted,
              row_cnt |-> row_cnt, held_before |-> sec_held_before,
              held_after |-> FALSE, calls |-> <<>>]
        ELSE IF Position_should_remove(is_deleted, sec_held_before, sec_held_after)
        THEN [result |-> "True",
              file |-> remove_securities(file, db, today, sec),
              table |-> upserted, row_cnt |-> row_cnt,
              held_before |-> sec_held_before, held_after |-> sec_held_after,
              calls |-> <<RepoCall("remove", today, sec, FALSE)>>]
        ELSE IF Position_should_refresh(is_deleted, sec_held_before, sec_held_after)
        THEN [result |-> "True",
              file |-> refresh_for_securities(file,
                            HeldForDate(appraisal_held, upserted), db, today,
                            sec, FALSE),
              table |-> upserted, row_cnt |-> row_cnt,
              held_before |-> sec_held_before, held_after |-> sec_held_after,
              calls |-> <<RepoCall("refresh", today, sec, FALSE)>>]
        ELSE [result |-> "True", file |-> file, table |-> upserted,
              row_cnt |-> row_cnt, held_before |-> sec_held_before,
              held_after |-> sec_held_after, calls |-> <<>>]

\* the position attribute ts_ms of an event
TsMs == {"missing", "old", "new"}
\* the method that a repository given to the handler lacks
MissingMethods == {"", "upsert", "remove_securities", "refresh_for_securities"}
\* rowcount of the upsert statement
RowCounts == {0, 1}

\* the consumer of position events handles a PositionCreatedEvent or a
\* PositionDeletedEvent
HandlePosition ==
    \E pms_position_id \in PositionIds, pms_security_id \in Ids,
       is_deleted \in BOOLEAN, ts_ms \in TsMs, missing \in MissingMethods,
       row_cnt \in RowCounts :
        LET res == PositionEventHandler_handle(held_file, position_table,
                        held_secs, coredb, pms_position_id, pms_security_id,
                        is_deleted, ts_ms, missing, row_cnt)
        IN  \* the upsert is not reached: no rowcount is drawn
            /\ (ts_ms # "new" \/ missing # "") => row_cnt = 1
            /\ held_file' = res.file
            /\ position_table' = res.table
            /\ last_handled' = [NoHandled EXCEPT
                    !.handler = "PositionEventHandler",
                    !.sec = pms_security_id,
                    !.is_deleted = is_deleted,
                    !.ts_ms = ts_ms, !.missing = missing,
                    !.row_cnt = res.row_cnt,
                    !.held_before = res.held_before,
                    !.held_after = res.held_after,
                    !.result = res.result, !.calls = res.calls]
            /\ UNCHANGED <<view_vars, swp_file, call_vars, consumer_vars,
                           race_vars, portfolio_table, choice>>

\* no position yet and no appraisal of today; vw-security has a row with
\* prices for any of the securities
InitPosition ==
    /\ held_secs = {}
    /\ coredb \in [Ids -> {0, 2}]
    /\ position_table = NoPositions
    /\ portfolio_table = NoPortfolios
    /\ last_handled = NoHandled
    /\ choice = NoChoice
    /\ ConsumerAtRest
    /\ RepositoryAtRest

NextPosition == HandlePosition

\* the position handler called directly, event after event
SpecPosition == InitPosition /\ [][NextPosition]_vars

\* the last handler call was one of PositionEventHandler
PositionHandled == last_handled.handler = "PositionEventHandler"

\* C18: when the upsert has affected a row, the handler calls
\* remove_securities exactly when the event is a delete and the security was
\* held before the upsert and is not held after it, and
\* refresh_for_securities exactly when the event is a create and the security
\* was not held before and is held after; a call is for today and for no
\* other security than that of the event; without a call the read-model
\* files stay as they are.
C18_PositionReadModelCalls ==
    [][ ( /\ last_handled'.handler = "PositionEventHandler"
          /\ last_handled'.row_cnt = 1 )
        => LET sec == last_handled'.sec
               is_deleted == last_handled'.is_deleted
               before == sec \in LiveHeld(position_table)
               after == sec \in LiveHeld(position_table')
               calls == last_handled'.calls
           IN  /\ Len(calls) <= 1
               /\ (\E i \in 1..Len(calls) : calls[i].op = "remove")
                    <=> (is_deleted /\ before /\ ~after)
               /\ (\E i \in 1..Len(calls) : calls[i].op = "refresh")
                    <=> (~is_deleted /\ ~before /\ after)
               /\ \A i \in 1..Len(calls) :
                    /\ calls[i].data_date = Today
                    /\ Range(calls[i].securities) \subseteq {Security(sec)}
               /\ calls = <<>> => UNCHANGED file_vars ]_vars

\* the last position of A was deleted: remove_securities was called for A and
\* the entry of B, held through another position, is still there
C18_Witness ==
    /\ PositionHandled
    /\ last_handled.sec = "A" /\ last_handled.is_deleted
    /\ last_handled.row_cnt = 1
    /\ last_handled.held_before /\ ~last_handled.held_after
    /\ last_handled.calls = <<RepoCall("remove", Today, <<Security("A")>>, FALSE)>>
    /\ LiveHeld(position_table) = {"B"}
    /\ PersistedIds(held_file, Today) = {"B"}

\* C19: the handler returns False for every position event for which a
\* required repository method (upsert, remove_securities,
\* refresh_for_securities) is missing or whose upsert affects zero rows.
C19_PositionReturnsFalse ==
    (PositionHandled /\ (last_handled.missing # "" \/ last_handled.row_cnt = 0))
        => last_handled.result = "False"

(***************************************************************************)
(* application/event_handlers.py, AppraisalBatchCreatedEventHandler        *)
(***************************************************************************)
\* LWDBAPXAppraisalPositionRepository.get_unique_securities: one Security per
\* lw_id of the appraisal, in the order the set gives them
AppraisalLists ==
    {l \in SeqsUpTo(KnownSecurities, Len(IdSeq)) :
        \A i, j \in 1..Len(l) : i # j => l[i] # l[j]}

\* variant: the entries of other securities are kept
Appraisal_keep_other_secs == FALSE

\* remove_other_secs of the two refresh calls of the handler
Appraisal_remove_other_secs == TRUE

\* AppraisalBatchCreatedEventHandler.handle: the value returned, the
\* read-model file after it and the repository calls made; held_secs are the
\* securities get_unique_securities has returned
AppraisalBatchCreatedEventHandler_handle(file, held, db, data_date, appraisal_held_secs) ==
    LET first == refresh_for_securities(file, held, db, data_date,
                        appraisal_held_secs, Appraisal_remove_other_secs)
        next_bday == get_next_bday(data_date)
        second == refresh_for_securities(first, held, db, next_bday,
                        appraisal_held_secs, Appraisal_remove_other_secs)
    IN  [result |-> "True", file |-> second,
         calls |-> <<RepoCall("refresh", data_date, appraisal_held_secs,
                              Appraisal_remove_other_secs),
                     RepoCall("refresh", next_bday, appraisal_held_secs,
                              Appraisal_remove_other_secs)>>]

\* dates of the appraisal batches: a Friday and today
AppraisalDates == {4, Today}

\* the consumer of appraisal batches handles an event
HandleAppraisalBatch ==
    \E data_date \in AppraisalDates, appraisal_held_secs \in AppraisalLists :
        LET res == AppraisalBatchCreatedEventHandler_handle(held_file,
                        held_secs, coredb, data_date, appraisal_held_secs)
        IN  /\ held_file' = res.file
            /\ last_handled' = [NoHandled EXCEPT
                    !.handler = "AppraisalBatchCreatedEventHandler",
                    !.data_date = data_date,
                    !.appraisal = appraisal_held_secs,
                    !.result = res.result, !.calls = res.calls]
            /\ UNCHANGED <<view_vars, swp_file, call_vars, consumer_vars,
                           race_vars, position_table, portfolio_table,
                           choice>>

NextAppraisal ==
    \/ HandleAppraisalBatch
    \/ HeldChange
    \/ CoreDBChange

\* the appraisal handler called directly, with the CoreDB views changing
SpecAppraisal == InitHandlers /\ [][NextAppraisal]_vars

\* the last handler call was one of AppraisalBatchCreatedEventHandler
AppraisalHandled == last_handled.handler = "AppraisalBatchCreatedEventHandler"

\* C20: once the handler has handled the appraisal batch of date d, the
\* collections persisted for d and for the next business day after d have
\* entries only for securities of the held set fetched for d, and the
\* handler has returned True.
C20_AppraisalOnlyHeld ==
    AppraisalHandled =>
        /\ last_handled.result = "True"
        /\ \A d \in {last_handled.data_date, get_next_bday(last_handled.data_date)} :
              /\ held_file[d].exists
              /\ PersistedIds(held_file, d)
                    \subseteq {x.lw_id : x \in Range(last_handled.appraisal)}

\* the appraisal of Friday 4 has A only: the collections of day 4 and of
\* Monday 7 have A only, although B is held and priced and was persisted for
\* day 7 together with day 8 by the appraisal of day 7
C20_Witness ==
    /\ AppraisalHandled
    /\ last_handled.data_date = 4
    /\ last_handled.appraisal = <<Security("A")>>
    /\ held_secs = {"A", "B"} /\ coredb["B"] = 2
    /\ PersistedIds(held_file, 4) = {"A"}
    /\ PersistedIds(held_file, Today) = {"A"}
    /\ PersistedIds(held_file, Today + 1) = {"A", "B"}

(***************************************************************************)
(* Failures of read-model writes                                           *)
(***************************************************************************)
\* C21: when a read-model write made while an event is handled raises
\* CreateFailedException, the offset of the message is not committed.
C21_NoCommitOnCreateFailed ==
    last.raised = "CreateFailedException" => ~last.committed

(***************************************************************************)
(* infrastructure/util/file.py: two processes reading and writing the      *)
(* files of the read model step by step                                    *)
(***************************************************************************)
\* the dates the two processes call the repository for
FileDates == {Today - 1, Today}

\* self.get(data_date) as the caller sees it: the list, never None
HeldRepo_get_res(file, d) == List(HeldRepo_get(file, d))

\* `if get_res is None: raise CreateFailedException(...)`
RaisesCreateFailed(get_res) == get_res = NoneList

\* a process enters refresh_for_securities, remove_securities or get
FileBegin(p) ==
    /\ pc[p] \in {"idle", "returned", "raised"}
    /\ \E op \in {"refresh", "remove", "get"}, d \in FileDates,
          securities \in SeqsUpTo(KnownSecurities, 1) :
            /\ (op = "get") = (securities = <<>>)
            /\ call' = [call EXCEPT ![p] =
                    [op |-> op, data_date |-> d, securities |-> securities,
                     remove_other_secs |-> FALSE, before_ids |-> {}]]
    /\ pc' = [pc EXCEPT ![p] = "read"]
    /\ local' = [local EXCEPT ![p] = <<>>]
    /\ UNCHANGED <<view_vars, file_vars, call_vars, consumer_vars,
                   handler_vars>>

\* self.get(data_date): get_read_model_content reads and parses the file; a
\* get call returns what it has read
FileRead(p) ==
    /\ pc[p] = "read"
    /\ local' = [local EXCEPT ![p] = HeldRepo_get(held_file, call[p].data_date)]
    /\ pc' = [pc EXCEPT ![p] = IF call[p].op = "get" THEN "returned" ELSE "open"]
    /\ UNCHANGED <<view_vars, file_vars, call_vars, consumer_vars,
                   call, handler_vars>>

\* set_read_model_content, open(read_model_file, 'w'): the file is created or
\* truncated; or open raises, which is logged, and the file stays as it is
FileOpen(p) ==
    /\ pc[p] = "open"
    /\ \E opened \in BOOLEAN :
         IF opened
         THEN /\ held_file' = [d2 \in DOMAIN held_file |->
                    IF get_read_model_file(d2) = get_read_model_file(call[p].data_date)
                    THEN PartialFile ELSE held_file[d2]]
              /\ call' = [call EXCEPT ![p].before_ids =
                            GetIdsBefore(held_file, call[p].data_date)]
              /\ pc' = [pc EXCEPT ![p] = "write"]
         ELSE /\ pc' = [pc EXCEPT ![p] = "readback"]
              /\ UNCHANGED <<held_file, call>>
    /\ UNCHANGED <<view_vars, swp_file, call_vars, consumer_vars,
                   local, handler_vars>>

\* set_read_model_content, f.write(json_content), f.flush() and the close of
\* the file: the content computed from the collection read is in the file
FileWrite(p) ==
    /\ pc[p] = "write"
    /\ held_file' = set_read_model_content(held_file, call[p].data_date,
            ContentOf(call[p], local[p], held_secs, coredb))
    /\ call' = [call EXCEPT ![p].before_ids = {}]
    /\ pc' = [pc EXCEPT ![p] = "readback"]
    /\ UNCHANGED <<view_vars, swp_file, call_vars, consumer_vars,
                   local, handler_vars>>

\* the read-back after the write: get_res = self.get(data_date), and
\* CreateFailedException if it is None
FileReadBack(p) ==
    /\ pc[p] = "readback"
    /\ LET get_res == HeldRepo_get_res(held_file, call[p].data_date)
       IN  pc' = [pc EXCEPT ![p] = IF RaisesCreateFailed(get_res) THEN "raised"
                                   ELSE "returned"]
    /\ local' = [local EXCEPT ![p] = <<>>]
    /\ UNCHANGED <<view_vars, file_vars, call_vars, consumer_vars,
                   call, handler_vars>>

NextFile ==
    \/ \E p \in Procs : FileBegin(p)
    \/ \E p \in Procs : FileRead(p)
    \/ \E p \in Procs : FileOpen(p)
    \/ \E p \in Procs : FileWrite(p)
    \/ \E p \in Procs : FileReadBack(p)

\* every security is held and has prices; no file yet
InitFile ==
    /\ held_secs = Ids
    /\ coredb = [i \in Ids |-> 2]
    /\ position_table = NoPositions
    /\ portfolio_table = NoPortfolios
    /\ last_handled = NoHandled
    /\ choice = NoChoice
    /\ ConsumerAtRest
    /\ RepositoryAtRest

SpecFile == InitFile /\ [][NextFile]_vars

\* C22: refresh_for_securities returns normally only when the collection of
\* the date is retrievable after its write: when the file of the date is
\* missing or cannot be parsed at the read-back, CreateFailedException is
\* raised.
C22_RefreshRaisesWhenNotRetrievable ==
    [][ \A p \in Procs :
          ( /\ pc[p] = "readback" /\ pc'[p] = "returned"
            /\ call[p].op = "refresh" )
          => get_read_model_content(held_file, call[p].data_date) # NoneList ]_vars

\* C25: a step of a repository call for a date d (refresh_for_securities,
\* remove_securities and the create it ends with) leaves the file of every
\* other date as it is, also while another process is inside a call for
\* another date.
C25_OtherDatesUnchanged ==
    [][ \A p \in Procs :
          pc'[p] # pc[p] =>
              \A d \in Dates \ {call'[p].data_date} :
                  held_file'[d] = held_file[d] ]_vars

\* process 1 has written the collection of yesterday (B) while process 2 is
\* overwriting the one of today, which held A: the two files are apart
C25_Witness ==
    /\ pc[1] = "readback" /\ call[1].op = "refresh"
    /\ call[1].data_date = Today - 1
    /\ PersistedIds(held_file, Today - 1) = {"B"}
    /\ held_file[Today - 1].valid_json
    /\ pc[2] = "write" /\ call[2].data_date = Today
    /\ call[2].before_ids = {"A"}
    /\ held_file[Today] = PartialFile

\* C29: a get of the collection of a date that runs while another process
\* is overwriting that collection returns the collection as it was before
\* the overwrite or as it is after it (compared by the lw_ids of the
\* entries), never an empty or partial one.
C29_ReadSeesBeforeOrAfter ==
    [][ \A p, q \in Procs :
          ( /\ p # q
            /\ pc[p] = "read" /\ call[p].op = "get" /\ pc'[p] = "returned"
            /\ pc[q] = "write" /\ call[q].data_date = call[p].data_date )
          => {e.lw_id : e \in Range(local'[p])}
                \in {call[q].before_ids,
                     {e.lw_id : e \in Range(ContentOf(call[q], local[q],
                                                      held_secs, coredb))}} ]_vars

(***************************************************************************)
(* More properties of the consumer loop                                    *)
(***************************************************************************)
\* C23: a message whose deserialization fails (deserialize raises, a
\* DeserializationError or any other exception) leads to a call of
\* handle_deserialization_error, and its offset is committed exactly when
\* that call has returned True.
C23_DeserializationErrorDecided ==
    last.des \in {"DeserializationError", "Exception"} =>
        /\ last.result # ""
        /\ last.committed <=> last.result = "True"

(***************************************************************************)
(* application/event_handlers.py, PortfolioCreatedEventHandler             *)
(***************************************************************************)
\* CoreDBPortfolioRepository.upsert: the row of the portfolio is written when
\* the statement affects a row
CoreDBPortfolioRepository_upsert(table, portfolio_code, portfolio_type, row_cnt) ==
    IF row_cnt = 0 THEN table
    ELSE [table EXCEPT ![portfolio_code] = portfolio_type]

\* PortfolioCreatedEventHandler.handle. missing is "upsert" when the
\* repository lacks the method, raises says that upsert raises, row_cnt is
\* the rowcount it returns otherwise
PortfolioCreatedEventHandler_handle(table, portfolio_code, portfolio_type, missing, raises, row_cnt) ==
    IF missing = "upsert"
    THEN [result |-> "False", table |-> table, row_cnt |-> -1, raised |-> FALSE]
    ELSE IF raises
    THEN \* except Exception: logged, then the return after the try
         [result |-> "True", table |-> table, row_cnt |-> -1, raised |-> TRUE]
    ELSE IF row_cnt = 0
    THEN [result |-> "False", table |-> table, row_cnt |-> row_cnt,
          raised |-> FALSE]
    ELSE [result |-> "True",
          table |-> CoreDBPortfolioRepository_upsert(table, portfolio_code,
                        portfolio_type, row_cnt),
          row_cnt |-> row_cnt, raised |-> FALSE]

\* portfolio_type of the portfolios of the events
PortfolioTypes == {"fund", "account"}

\* the consumer of portfolio events handles a PortfolioCreatedEvent
HandlePortfolio ==
    \E portfolio_code \in PortfolioCodes, portfolio_type \in PortfolioTypes,
       missing \in {"", "upsert"}, raises \in BOOLEAN, row_cnt \in RowCounts :
        LET res == PortfolioCreatedEventHandler_handle(portfolio_table,
                        portfolio_code, portfolio_type, missing, raises, row_cnt)
        IN  \* the upsert is not reached, or raises: no rowcount is drawn
            /\ missing # "" => ~raises
            /\ (missing # "" \/ raises) => row_cnt = 1
            /\ portfolio_table' = res.table
            /\ last_handled' = [NoHandled EXCEPT
                    !.handler = "PortfolioCreatedEventHandler",
                    !.portfolio = <<portfolio_code, portfolio_type>>,
                    !.missing = missing,
                    !.raised = res.raised,
                    !.row_cnt = res.row_cnt,
                    !.result = res.result]
            /\ UNCHANGED <<view_vars, file_vars, call_vars, consumer_vars,
                           race_vars, position_table, choice>>

NextPortfolio == HandlePortfolio

\* the portfolio handler called directly, event after event
SpecPortfolio == InitHandlers /\ [][NextPortfolio]_vars

\* the last handler call was one of PortfolioCreatedEventHandler
PortfolioHandled == last_handled.handler = "PortfolioCreatedEventHandler"

\* C26: the handler returns True only when the upsert was made and affected
\* at least one row; when the upsert method is missing, affects zero rows or
\* raises, it returns False.
C26_PortfolioTrueOnlyOnUpsert ==
    PortfolioHandled =>
        /\ last_handled.result = "True" => last_handled.row_cnt >= 1
        /\ ( \/ last_handled.missing # ""
             \/ last_handled.row_cnt = 0
             \/ last_handled.raised ) => last_handled.result = "False"

InterruptAtPoll ==
    /\ running
    /\ running' = FALSE
    /\ last' = [NoIteration EXCEPT !.raised = "KeyboardInterrupt"]
    /\ UNCHANGED <<view_vars, file_vars, call_vars, event_handler, log,
                   position, committed, race_vars, handler_vars>>

\* KeyboardInterrupt is raised inside handle, after `writes` repository
\* writes of SecurityCreatedEventHandler: it is no Exception, so neither the
\* handler nor the try block of the loop catches it, and `except
\* KeyboardInterrupt: pass` leaves the loop
InterruptInHandle ==
    /\ running
    /\ position <= Len(log)
    /\ log[position].shape = "Event"
    /\ \E writes \in FailPoints :
         LET sec == SecurityCreatedEventHandler_handle(
                        [held_file |-> held_file, swp_file |-> swp_file],
                        held_secs, coredb, log[position].lw_id, writes)
         IN  IF event_handler = "SecurityCreatedEventHandler"
             THEN /\ held_file' = sec.files.held_file
                  /\ swp_file' = sec.files.swp_file
             ELSE /\ writes = 0
                  /\ UNCHANGED file_vars
    /\ position' = position + 1
    /\ running' = FALSE
    /\ last' = [offset |-> position, des |-> "Event", handler |-> "interrupted",
                result |-> "", raised |-> "KeyboardInterrupt",
                committed |-> FALSE]
    /\ UNCHANGED <<view_vars, call_vars, event_handler, log, committed,
                   race_vars, handler_vars>>

NextInterrupt ==
    \/ Produce
    \/ Consume
    \/ Restart
    \/ InterruptAtPoll
    \/ InterruptInHandle

\* security A is held and has prices; the views stay as they are
InitInterrupt ==
    /\ held_secs = {"A"}
    /\ coredb = [i \in Ids |-> 2]
    /\ held_file = [d \in Dates |-> NoFile]
    /\ swp_file = [d \in Dates |-> {}]
    /\ last_call = NoCall
    /\ views_changed = FALSE
    /\ event_handler \in Handlers
    /\ log = <<>>
    /\ position = 1
    /\ committed = 1
    /\ running = TRUE
    /\ last = NoIteration
    /\ pc = [p \in Procs |-> "idle"]
    /\ call = [p \in Procs |-> NoCall]
    /\ local = [p \in Procs |-> <<>>]
    /\ position_table = NoPositions
    /\ portfolio_table = NoPortfolios
    /\ last_handled = NoHandled
    /\ choice = NoChoice

SpecInterrupt == InitInterrupt /\ [][NextInterrupt]_vars

\* C28: a process interrupt ends the loop only when no message is between
\* the start of its handling and its commit or no-commit step.
C28_InterruptAfterDecision ==
    last.raised = "KeyboardInterrupt" => last.offset = 0

(***************************************************************************)
(* Relevance of current-day prices                                         *)
(***************************************************************************)
\* the price of vw_price row px is among the prices kept in a persisted
\* entry, under its raw or its translated source name
KeptIn(entry, px) ==
    \E k \in Range(entry.curr_bday_prices.items) :
        /\ k.value = px.value
        /\ translate_price_source(k.source) = translate_price_source(px.source)

\* every BB_EQUITY row of vw_price is kept in the entry exactly when
\* BLOOMBERG is a relevant source
KeepsBloombergIffRelevant(entry, db) ==
    \A px \in Range(vw_price(db[entry.lw_id])) :
        px.source = "BB_EQUITY" =>
            (KeptIn(entry, px) <=> feed_is_relevant("BLOOMBERG"))

\* C30: after SecurityCreatedEventHandler handled the event of a held
\* security to the end, the entries it wrote for today, the per-security one
\* filtered by the handler and the held-collection one filtered by the
\* upstream fetch, keep a BB_EQUITY price exactly when BLOOMBERG is relevant.
C30_RelevanceOnTranslatedSource ==
    [][ ( /\ HandlerStep
          /\ last_handled'.handler = "SecurityCreatedEventHandler"
          /\ last_handled'.result = "None"
          /\ last_handled'.held_before
          /\ ~HasSlash(last_handled'.sec) )
        => /\ \A e \in Range(held_file'[Today].content) :
                e.lw_id = last_handled'.sec => KeepsBloombergIffRelevant(e, coredb)
           /\ \A e \in swp_file'[Today] :
                e.lw_id = last_handled'.sec => KeepsBloombergIffRelevant(e, coredb)
      ]_vars

(***************************************************************************)
(* The repository calls the event handlers make                            *)
(***************************************************************************)
\* the handlers call refresh_for_securities with securities that have
\* distinct lw_ids: the rows of vw-security for the lw_ids of a price batch
\* (isin), the securities of get_unique_securities, [sec] of a security event
\* and the vw-security row of a position; PositionEventHandler calls
\* remove_securities, which calls create, with that row
NextHandlerCalls ==
    \/ HeldChange
    \/ CoreDBChange
    \/ \E d \in RepoDates, securities \in AppraisalLists,
          remove_other_secs \in BOOLEAN :
            RefreshForSecurities(d, securities, remove_other_secs)
    \/ \E d \in RepoDates, pms_security_id \in Ids :
            RemoveSecurities(d, CoreDBSecurityRepository_get(coredb, pms_security_id))

SpecHandlerCalls == InitRepo /\ [][NextHandlerCalls]_vars

\* no two entries of the sequence have the same lw_id
DistinctLwIds(content) ==
    \A i, j \in 1..Len(content) :
        i # j => content[i].lw_id # content[j].lw_id

\* C24: in every state the event handlers reach through their
\* refresh_for_securities, remove_securities and create calls, no two entries
\* of the collection persisted for one date have the same lw_id.
C24_UniqueLwIdPerDate ==
    \A d \in Dates : DistinctLwIds(held_file[d].content)

\* today's collection has entries for two securities and the last call
\* refreshed a security that had an entry already
C24_Witness ==
    /\ Len(held_file[Today].content) >= 2
    /\ last_call.op = "refresh"
    /\ ~last_call.remove_other_secs
    /\ \E x \in Range(last_call.securities) :
            /\ x.lw_id \in last_call.before_ids
            /\ x.lw_id \in PersistedIds(held_file, Today)

(***************************************************************************)
(* Entries leaving the held collection                                     *)
(***************************************************************************)
\* C31: refresh_for_securities with remove_other_secs=False leaves no
\* security id that was in the collection of its date absent from it; an
\* entry disappears only through remove_securities or a full replace.
C31_RefreshKeepsIds ==
    [][ ( /\ Called("refresh")
          /\ ~last_call'.remove_other_secs )
        => last_call'.before_ids
                \subseteq PersistedIds(held_file', last_call'.data_date) ]_vars

(***************************************************************************)
(* infrastructure/file_repositories.py,                                    *)
(* JSONSecurityWithPricesRepository.add_price                              *)
(***************************************************************************)
\* PriceType names of the values of a Price given to add_price, and the keys
\* Price.from_dict reads when the dict has no 'values' item
ValueTypes == {"price", "price_bid"}
ReadBackTypes == {"price", "yield", "duration"}
ValueNumbers == {1, 2}
AddPriceSources == {"BLOOMBERG", "MANUAL"}

\* k[-4:] == '_bid' and k[:-4]
BidKeys == {"price_bid", "yield_bid"}
Unbid(k) == IF k = "price_bid" THEN "price" ELSE "yield"

\* no stored price: {} in the file, None in the object
NoPriceDict == [present |-> FALSE, source |-> "", items |-> [k \in {} |-> 0]]
NoPriceObject == [present |-> FALSE, source |-> "", values |-> [k \in {} |-> 0]]

\* Price.to_dict: the source and every value under its type name, plus 'xyz'
\* for a value 'xyz_bid' when there is no 'xyz'
Price_to_dict(price) ==
    LET values == price.values
        bids == DOMAIN values \cap BidKeys
        added == {Unbid(b) : b \in bids} \ DOMAIN values
    IN  [present |-> TRUE,
         source |-> price.source,
         items |-> [k \in DOMAIN values \cup added |->
                        IF k \in DOMAIN values THEN values[k]
                        ELSE values[CHOOSE b \in bids : Unbid(b) = k]]]

\* Price.from_dict of a stored price: the values are the keys among price,
\* yield and duration
Price_from_dict(data) ==
    [present |-> TRUE,
     source |-> data.source,
     values |-> [k \in DOMAIN data.items \cap ReadBackTypes |-> data.items[k]]]

RECURSIVE PricesToDict(_)
PricesToDict(prices) ==
    IF prices = <<>> THEN <<>>
    ELSE <<Price_to_dict(Head(prices))>> \o PricesToDict(Tail(prices))

RECURSIVE PricesFromDict(_)
PricesFromDict(dicts) ==
    IF dicts = <<>> THEN <<>>
    ELSE <<Price_from_dict(Head(dicts))>> \o PricesFromDict(Tail(dicts))

RECURSIVE OtherSources(_, _)
\* [px for px in swp.curr_bday_prices if (px.source != price.source)]
OtherSources(prices, source) ==
    IF prices = <<>> THEN <<>>
    ELSE IF Head(prices).source # source
         THEN <<Head(prices)>> \o OtherSources(Tail(prices), source)
         ELSE OtherSources(Tail(prices), source)

\* the keys of <lw_id>.json that add_price works on, as to_dict writes them
\* for the object swp (curr_bday_prices None is written as [])
PricesEntry(swp) ==
    [lw_id |-> swp.lw_id,
     data_date |-> swp.data_date,
     curr_bday_prices |-> PricesToDict(swp.curr_bday_prices),
     prev_bday_price |-> IF swp.prev_bday_price.present
                         THEN Price_to_dict(swp.prev_bday_price)
                         ELSE NoPriceDict]

\* SecurityWithPrices.from_dict of such a file
PricesObject(entry) ==
    [lw_id |-> entry.lw_id,
     data_date |-> entry.data_date,
     curr_bday_prices |-> PricesFromDict(entry.curr_bday_prices),
     prev_bday_price |-> IF entry.prev_bday_price.present
                         THEN Price_from_dict(entry.prev_bday_price)
                         ELSE NoPriceObject]

\* JSONSecurityWithPricesRepository.add_price for the security lw_id of the
\* price; files are the <lw_id>.json files per date
add_price(files, lw_id, price, price_date, mode) ==
    LET data_date == IF mode = "prev" THEN get_next_bday(price_date)
                     ELSE price_date
        found == {e \in files[data_date] : e.lw_id = lw_id}
        swp == PricesObject(CHOOSE e \in found : TRUE)
        created ==
            IF found = {}
            THEN [lw_id |-> lw_id, data_date |-> data_date,
                  curr_bday_prices |-> IF mode = "prev" THEN <<>> ELSE <<price>>,
                  prev_bday_price |-> IF mode = "prev" THEN price
                                      ELSE NoPriceObject]
            ELSE IF mode = "prev"
            THEN [swp EXCEPT !.prev_bday_price = price]
            ELSE [swp EXCEPT !.curr_bday_prices =
                        Append(OtherSources(swp.curr_bday_prices, price.source),
                               price)]
    IN  [files EXCEPT ![data_date] = (@ \ found) \cup {PricesEntry(created)}]

\* the prices add_price is called with
GivenPrices ==
    {[present |-> TRUE, source |-> src, values |-> v] :
        src \in AddPriceSources,
        v \in UNION {[T -> ValueNumbers] : T \in (SUBSET ValueTypes) \ {{}}}}

\* the data_date of the price: today for a price of the current business
\* day, the Friday before for one of the previous business day
AddPriceDate(mode) == IF mode = "prev" THEN 4 ELSE Today

NoAddPrice == [mode |-> "", price |-> NoPriceObject, existed |-> FALSE]

\* a caller adds a price of security A
AddPrice ==
    \E price \in GivenPrices, mode \in {"curr", "prev"} :
        /\ swp_file' = add_price(swp_file, IdSeq[1], price, AddPriceDate(mode), mode)
        /\ choice' = [mode |-> mode, price |-> price,
                      existed |-> \E e \in swp_file[Today] : e.lw_id = IdSeq[1]]
        /\ UNCHANGED <<view_vars, held_file, call_vars, consumer_vars,
                       race_vars, position_table, portfolio_table,
                       last_handled>>

NextAddPrice == AddPrice

InitAddPrice ==
    /\ held_secs = {}
    /\ coredb = [i \in Ids |-> 0]
    /\ position_table = NoPositions
    /\ portfolio_table = NoPortfolios
    /\ last_handled = NoHandled
    /\ choice = NoAddPrice
    /\ ConsumerAtRest
    /\ RepositoryAtRest

SpecAddPrice == InitAddPrice /\ [][NextAddPrice]_vars

\* the entry of security A in today's files
EntryOfA(files) == CHOOSE e \in files[Today] : e.lw_id = IdSeq[1]

\* C32: after add_price(p, mode='curr') on an existing entry,
\* curr_bday_prices contains p and no other price of the source of p, every
\* price stored before from a different source is in it unchanged, and
\* prev_bday_price is as it was; so there is at most one price per source.
C32_AddPriceCurr ==
    [][ ( /\ choice'.mode = "curr"
          /\ choice'.existed )
        => LET before == EntryOfA(swp_file)
               after == EntryOfA(swp_file')
               p == Price_to_dict(choice'.price)
           IN  /\ p \in Range(after.curr_bday_prices)
               /\ \A x \in Range(after.curr_bday_prices) :
                        x.source = p.source => x = p
               /\ \A x \in Range(before.curr_bday_prices) :
                        x.source # p.source => x \in Range(after.curr_bday_prices)
               /\ after.prev_bday_price = before.prev_bday_price
               /\ \A i, j \in 1..Len(after.curr_bday_prices) :
                        i # j => after.curr_bday_prices[i].source
                                    # after.curr_bday_prices[j].source
      ]_vars

(***************************************************************************)
(* infrastructure/event_subscribers.py, the deserialize methods            *)
(***************************************************************************)
\* a key that the message does not have
NoKey == "<no key>"
\* payload.op of a change message: create, update, read, delete, truncate,
\* the empty string, or no such key
Ops == {"c", "u", "r", "d", "t", "", NoKey}
\* payload.before / payload.after: no such key, null, or an object
Parts == {NoKey, "null", "object"}
\* the key missing from the object of the message, "" if it has them all
PositionKeys == {"portfolioid", "securityid", "quantity", "isshortposition"}
\* the message value: not JSON, or a JSON object
Values == {"not json", "object"}
\* modified_at of a security message: no such key, milliseconds, a string
ModifiedAts == {NoKey, "int", "str"}

\* op in ('d'): ('d') is the string 'd', so this is a substring test
InD(op) == op \in {"d", ""}

\* KafkaCoreDBSecurityCreatedEventConsumer.deserialize
Security_deserialize(value, missing, modified_at) ==
    IF value = "not json" THEN "raise"                \* json.loads
    ELSE IF missing = "lw_id" THEN "raise"            \* KeyError
    ELSE IF modified_at = "str" THEN "raise"          \* str has no isoformat
    ELSE "SecurityCreatedEvent"

\* KafkaCoreDBAppraisalBatchCreatedEventConsumer.deserialize
AppraisalBatch_deserialize(value, missing) ==
    IF value = "not json" THEN "raise"
    ELSE IF missing = "data_date" THEN "raise"        \* KeyError
    ELSE "AppraisalBatchCreatedEvent"

\* KafkaCoreDBPriceBatchCreatedEventConsumer.deserialize
PriceBatch_deserialize(value, missing) ==
    IF value = "not json" THEN "raise"
    ELSE IF missing \in {"data_date", "source"} THEN "raise"   \* KeyError
    ELSE "PriceBatchCreatedEvent"

\* KafkaAPXPositionEventConsumer.deserialize
Position_deserialize(value, op, before, after, missing) ==
    LET part == IF InD(op) THEN before ELSE after
    IN  IF value = "not json" THEN "raise"
        ELSE IF op = NoKey THEN "raise"               \* KeyError
        ELSE IF part = NoKey THEN "raise"             \* KeyError
        ELSE IF part = "null" THEN "raise"            \* None has no items
        ELSE IF missing \in PositionKeys THEN "raise" \* KeyError
        ELSE IF op \in {"c", "u", "r"} THEN "PositionCreatedEvent"
        ELSE IF InD(op) THEN "PositionDeletedEvent"
        ELSE "None"

\* KafkaAPXPortfolioEventConsumer.deserialize; found: portfolio_repository
\* has a portfolio with the id of the message
Portfolio_deserialize(value, op, after, missing, found) ==
    IF value = "not json" THEN "raise"
    ELSE IF op = NoKey THEN "raise"                   \* KeyError
    ELSE IF InD(op) THEN "None"
    ELSE IF after = NoKey THEN "raise"                \* KeyError
    ELSE IF after = "null" THEN "raise"               \* None has no items
    ELSE IF missing = "portfolioid" THEN "raise"      \* neither id key
    ELSE IF ~found THEN "None"
    ELSE "PortfolioCreatedEvent"

NoMessage == [consumer |-> "", value |-> "", op |-> "", before |-> "",
              after |-> "", missing |-> "", modified_at |-> "",
              found |-> FALSE, result |-> ""]

\* the consumer of a topic deserializes a polled message value
Deserialized(message) ==
    /\ choice' = message
    /\ UNCHANGED <<view_vars, file_vars, call_vars, consumer_vars, race_vars,
                   position_table, portfolio_table, last_handled>>

DeserializeSecurity ==
    \E value \in Values, missing \in {"", "lw_id"}, modified_at \in ModifiedAts :
        Deserialized([NoMessage EXCEPT
            !.consumer = "KafkaCoreDBSecurityCreatedEventConsumer",
            !.value = value, !.missing = missing, !.modified_at = modified_at,
            !.result = Security_deserialize(value, missing, modified_at)])

DeserializeAppraisalBatch ==
    \E value \in Values, missing \in {"", "data_date", "portfolios"} :
        Deserialized([NoMessage EXCEPT
            !.consumer = "KafkaCoreDBAppraisalBatchCreatedEventConsumer",
            !.value = value, !.missing = missing,
            !.result = AppraisalBatch_deserialize(value, missing)])

DeserializePriceBatch ==
    \E value \in Values, missing \in {"", "data_date", "source"} :
        Deserialized([NoMessage EXCEPT
            !.consumer = "KafkaCoreDBPriceBatchCreatedEventConsumer",
            !.value = value, !.missing = missing,
            !.result = PriceBatch_deserialize(value, missing)])

DeserializePosition ==
    \E value \in Values, op \in Ops, before \in Parts, after \in Parts,
       missing \in {""} \cup PositionKeys :
        Deserialized([NoMessage EXCEPT
            !.consumer = "KafkaAPXPositionEventConsumer",
            !.value = value, !.op = op, !.before = before, !.after = after,
            !.missing = missing,
            !.result = Position_deserialize(value, op, before, after, missing)])

DeserializePortfolio ==
    \E value \in Values, op \in Ops, after \in Parts,
       missing \in {"", "portfolioid"}, found \in BOOLEAN :
        Deserialized([NoMessage EXCEPT
            !.consumer = "KafkaAPXPortfolioEventConsumer",
            !.value = value, !.op = op, !.after = after,
            !.missing = missing, !.found = found,
            !.result = Portfolio_deserialize(value, op, after, missing, found)])

NextDeserialize ==
    \/ DeserializeSecurity
    \/ DeserializeAppraisalBatch
    \/ DeserializePriceBatch
    \/ DeserializePosition
    \/ DeserializePortfolio

InitDeserialize ==
    /\ held_secs = {}
    /\ coredb = [i \in Ids |-> 0]
    /\ position_table = NoPositions
    /\ portfolio_table = NoPortfolios
    /\ last_handled = NoHandled
    /\ choice = NoMessage
    /\ ConsumerAtRest
    /\ RepositoryAtRest

SpecDeserialize == InitDeserialize /\ [][NextDeserialize]_vars

\* the message is a JSON object with an op code, the object that goes with
\* the op code and every key read from it
WellFormed(m) ==
    /\ m.value = "object"
    /\ m.missing \in {"", "portfolios"}
    /\ m.modified_at # "str"
    /\ m.consumer \in {"KafkaAPXPositionEventConsumer",
                        "KafkaAPXPortfolioEventConsumer"}
        => /\ m.op # NoKey
           /\ m.op = "d" => (m.consumer = "KafkaAPXPositionEventConsumer"
                                => m.before = "object")
           /\ m.op # "d" => m.after = "object"

\* C33: deserialize raises for no message: a message of an unknown or
\* irrelevant shape (a missing expected key, an unrecognized op code) gives
\* no event, and a well-formed position message gives a PositionCreatedEvent
\* for the op codes c, u and r, a PositionDeletedEvent for d and no event for
\* any other op code.
C33_DeserializeReturnsNone ==
    /\ choice.result # "raise"
    /\ (choice.consumer # "" /\ ~WellFormed(choice)) => choice.result = "None"
    /\ (choice.consumer = "KafkaAPXPositionEventConsumer" /\ WellFormed(choice))
        => choice.result =
            IF choice.op \in {"c", "u", "r"} THEN "PositionCreatedEvent"
            ELSE IF choice.op = "d" THEN "PositionDeletedEvent"
            ELSE "None"

(***************************************************************************)
(* Properties of get_chosen_price for lists of any length                  *)
(***************************************************************************)
\* source a has strictly higher precedence than source b: a is in the
\* hierarchy and b is not, or a comes earlier in it
Higher(a, b) ==
    \/ a \in Range(HIERARCHY) /\ b \notin Range(HIERARCHY)
    \/ Earlier(a, b)

\* the positions of the list whose price no price of the list beats
Best(items) ==
    {i \in 1..Len(items) :
        \A j \in 1..Len(items) : ~Higher(items[j].source, items[i].source)}

\* C34: get_chosen_price returns null exactly when curr_bday_prices is absent
\* or empty; otherwise it returns an element of the list than which no
\* element has strictly higher precedence.
C34_ChosenIsBest ==
    choice.done =>
        /\ (choice.chosen = NonePrice)
                <=> (choice.prices.tag = "None" \/ choice.prices.items = <<>>)
        /\ choice.chosen # NonePrice
                => \E i \in Best(choice.prices.items) :
                        choice.chosen = choice.prices.items[i]

\* of BLOOMBERG, OVERRIDE, MANUAL the price in the middle is chosen
C34_Witness ==
    /\ choice.done
    /\ choice.prices.tag = "list"
    /\ Len(choice.prices.items) = 3
    /\ choice.prices.items[1].source = "BLOOMBERG"
    /\ choice.prices.items[2].source = "OVERRIDE"
    /\ choice.prices.items[3].source = "MANUAL"
    /\ choice.chosen = choice.prices.items[2]

\* C35: when several prices of the list tie for the best precedence (the
\* same source of the hierarchy, or all sources outside it), the chosen price
\* is the one of them that comes first in the list.
C35_FirstOfTiesChosen ==
    ( /\ choice.done
      /\ choice.prices.tag = "list"
      /\ Cardinality(Best(choice.prices.items)) >= 2 )
    => \E i \in Best(choice.prices.items) :
            /\ \A j \in Best(choice.prices.items) : i <= j
            /\ choice.chosen = choice.prices.items[i]

\* TXPR, then BLOOMBERG twice: the first BLOOMBERG price is chosen
C35_Witness ==
    /\ choice.done
    /\ choice.prices.tag = "list"
    /\ Len(choice.prices.items) = 3
    /\ choice.prices.items[1].source = "TXPR"
    /\ choice.prices.items[2].source = "BLOOMBERG"
    /\ choice.prices.items[3].source = "BLOOMBERG"
    /\ choice.chosen = choice.prices.items[2]

(***************************************************************************)
(* Properties of SecurityCreatedEventHandler over its dates                *)
(***************************************************************************)
\* the handler step is one of a held security without '/' in its lw_id
HeldSecurityHandled ==
    /\ HandlerStep
    /\ last_handled'.handler = "SecurityCreatedEventHandler"
    /\ ~HasSlash(last_handled'.sec)
    /\ last_handled'.sec \in CoreDBHeldSecurityRepository_get(held_secs, Today)

\* <lw_id>.json of date d holds the SecurityWithPrices built from CoreDB now
FreshWritten(files, db, d, lw_id) ==
    SecurityWithPrices_to_dict(HandlerSecurityWithPrices(db, d, lw_id))
        \in files[d]

\* the held file of date d is as refresh_for_securities(d, [sec]) leaves it
Refreshed(before, after, held, db, d, lw_id) ==
    after[d] = refresh_for_securities(before, held, db, d,
                    <<Security(lw_id)>>, FALSE)[d]

\* C36: for a security without '/' that is held today, the handler that runs
\* to its end has, for each of the 7 dates today .. today-6 and no other,
\* written the fresh SecurityWithPrices and refreshed the held file of that
\* date; a handler cut short has not refreshed a date whose
\* SecurityWithPrices it has not written (the write precedes the refresh).
C36_SevenDatesWriteThenRefresh ==
    [][ HeldSecurityHandled =>
        LET sec == last_handled'.sec
            updated == {Today - n : n \in 0..6}
        IN  /\ \A d \in Dates \ updated :
                    swp_file'[d] = swp_file[d] /\ held_file'[d] = held_file[d]
            /\ last_handled'.result = "None"
                => \A d \in updated :
                        /\ FreshWritten(swp_file', coredb, d, sec)
                        /\ Refreshed(held_file, held_file', held_secs, coredb, d, sec)
            /\ last_handled'.result # "None"
                => \A d \in updated :
                        held_file'[d] # held_file[d]
                            => FreshWritten(swp_file', coredb, d, sec) ]_vars

\* the event of held security A, with price rows in CoreDB, was handled to
\* the end: both files of today minus 6 have it, those of tomorrow do not
C36_Witness ==
    /\ last_handled.handler = "SecurityCreatedEventHandler"
    /\ last_handled.sec = "A" /\ last_handled.held_before
    /\ last_handled.result = "None"
    /\ coredb["A"] = 2
    /\ FreshWritten(swp_file, coredb, Today - 6, "A")
    /\ PersistedIds(held_file, Today - 6) = {"A"}
    /\ swp_file[Today + 1] = {}
    /\ PersistedIds(held_file, Today + 1) = {}

(***************************************************************************)
(* Redelivery of a batch event                                             *)
(***************************************************************************)
\* both securities are held throughout; CoreDB has nothing of them yet
InitBatches ==
    /\ held_secs = Ids
    /\ coredb = [i \in Ids |-> 0]
    /\ position_table = NoPositions
    /\ portfolio_table = NoPortfolios
    /\ last_handled = NoHandled
    /\ choice = NoChoice
    /\ ConsumerAtRest
    /\ RepositoryAtRest

\* the consumer of appraisal batches handles the event of Friday 4
HandleFridayAppraisalBatch ==
    \E appraisal_held_secs \in AppraisalLists :
        LET res == AppraisalBatchCreatedEventHandler_handle(held_file,
                        held_secs, coredb, 4, appraisal_held_secs)
        IN  /\ held_file' = res.file
            /\ last_handled' = [NoHandled EXCEPT
                    !.handler = "AppraisalBatchCreatedEventHandler",
                    !.data_date = 4,
                    !.appraisal = appraisal_held_secs,
                    !.result = res.result, !.calls = res.calls]
            /\ UNCHANGED <<view_vars, swp_file, call_vars, consumer_vars,
                           race_vars, position_table, portfolio_table,
                           choice>>

NextBatches ==
    \/ HandlePriceBatch
    \/ HandleFridayAppraisalBatch
    \/ CoreDBChange

\* the two batch handlers called directly, with the rows of CoreDB changing
SpecBatches == InitBatches /\ [][NextBatches]_vars

\* the read-model file after the event just handled is handled once more
Redelivered(file, held, db, handled) ==
    IF handled.handler = "PriceBatchCreatedEventHandler"
    THEN PriceBatchCreatedEventHandler_handle(file, held, db,
                handled.source, handled.data_date).file
    ELSE AppraisalBatchCreatedEventHandler_handle(file, held, db,
                handled.data_date, handled.appraisal).file

\* C37: handling the same PriceBatchCreatedEvent or AppraisalBatchCreatedEvent
\* a second time, with the CoreDB views as they were, leaves the persisted
\* collections as the first handling has left them.
C37_RedeliverySameCollections ==
    [][ ( /\ HandlerStep
          /\ last_handled'.handler \in {"PriceBatchCreatedEventHandler",
                                        "AppraisalBatchCreatedEventHandler"} )
        => Redelivered(held_file', held_secs, coredb, last_handled') = held_file'
      ]_vars

\* a LW_MANUAL batch of day 4 was refreshed for held and priced A while the
\* collection of day 4 already had the entries of A and B
C37_Witness ==
    /\ PriceBatchHandled
    /\ last_handled.source = "LW_MANUAL" /\ last_handled.data_date = 4
    /\ Len(last_handled.calls) = 1
    /\ last_handled.calls[1].securities # <<>>
    /\ PersistedIds(held_file, 4) = {"A", "B"}

(***************************************************************************)
(* infrastructure/event_subscribers.py, the while loop of consume step by  *)
(* step                                                                    *)
(***************************************************************************)
\* what consumer.poll(1.0) returns: None, a message with an error, a message
\* whose value is None, a message with a value
Polled == {"None", "error", "no value", "value"}

\* how self.event_handler.handle(event) ends: a returned value or a raise
HandleOutcomes == {"True", "False", "None", "Exception", "DeserializationError"}

\* how handle_deserialization_error(e) ends
ErrorOutcomes == {"True", "False", "raise"}

\* the loop before its first poll; steps are the steps of the loop taken for
\* the message polled last, committed the number of the message committed last
LoopStart ==
    [pc |-> "poll", polled |-> 0, should_commit |-> TRUE, steps |-> <<>>,
     committed |-> 0]

\* variant: a handler that has returned False is called again at once
AfterHandle_retry(outcome) ==
    IF outcome = "DeserializationError" THEN "handle_deserialization_error"
    ELSE IF outcome = "False" THEN "handle"
    ELSE "if should_commit"

\* where the loop goes when handle has ended: to the except branch of a
\* DeserializationError, otherwise to `if should_commit:`
AfterHandle(outcome) ==
    IF outcome = "DeserializationError" THEN "handle_deserialization_error"
    ELSE "if should_commit"

\* msg = self.consumer.poll(1.0) and the if / elif chain under it
LoopPoll ==
    /\ choice.pc = "poll"
    /\ choice.polled < MaxLog
    /\ \E msg \in Polled :
          choice' = IF msg = "value"
                    THEN [choice EXCEPT !.pc = "deserialize",
                                        !.polled = @ + 1,
                                        !.should_commit = TRUE,
                                        !.steps = <<>>]
                    ELSE choice
    /\ UNCHANGED <<view_vars, file_vars, call_vars, consumer_vars, race_vars,
                   position_table, portfolio_table, last_handled>>

\* event = self.deserialize(msg.value()); for None the offset is committed
\* and the loop continues
LoopDeserialize ==
    /\ choice.pc = "deserialize"
    /\ \E des \in Shapes :
          choice' =
            CASE des = "Event" ->
                    [choice EXCEPT !.pc = "handle",
                                   !.steps = Append(@, "deserialize")]
              [] des = "None" ->
                    [choice EXCEPT !.pc = "poll",
                                   !.steps = @ \o <<"deserialize", "commit">>,
                                   !.committed = choice.polled]
              [] des = "DeserializationError" ->
                    [choice EXCEPT !.pc = "handle_deserialization_error",
                                   !.steps = Append(@, "deserialize")]
              [] OTHER ->
                    [choice EXCEPT !.pc = "if should_commit",
                                   !.steps = Append(@, "deserialize")]
    /\ UNCHANGED <<view_vars, file_vars, call_vars, consumer_vars, race_vars,
                   position_table, portfolio_table, last_handled>>

\* should_commit = self.event_handler.handle(event), or handle raises
LoopHandle ==
    /\ choice.pc = "handle"
    /\ \E outcome \in HandleOutcomes :
          choice' = [choice EXCEPT
                        !.pc = AfterHandle(outcome),
                        !.should_commit =
                            IF outcome \in {"True", "False", "None"}
                            THEN Truthy(outcome) ELSE @,
                        !.steps = Append(@, "handle")]
    /\ UNCHANGED <<view_vars, file_vars, call_vars, consumer_vars, race_vars,
                   position_table, portfolio_table, last_handled>>

\* should_commit = self.event_handler.handle_deserialization_error(e); an
\* exception raised here leaves the loop and the consumer is closed
LoopHandleDeserializationError ==
    /\ choice.pc = "handle_deserialization_error"
    /\ \E outcome \in ErrorOutcomes :
          choice' = [choice EXCEPT
                        !.pc = IF outcome = "raise" THEN "closed"
                               ELSE "if should_commit",
                        !.should_commit =
                            IF outcome = "raise" THEN @ ELSE Truthy(outcome),
                        !.steps = Append(@, "handle_deserialization_error")]
    /\ UNCHANGED <<view_vars, file_vars, call_vars, consumer_vars, race_vars,
                   position_table, portfolio_table, last_handled>>

\* if should_commit: commit, else log that the offset is not committed
LoopCommit ==
    /\ choice.pc = "if should_commit"
    /\ choice' = [choice EXCEPT
                    !.pc = "poll",
                    !.steps = Append(@, IF choice.should_commit THEN "commit"
                                        ELSE "no commit"),
                    !.committed = IF choice.should_commit THEN choice.polled
                                  ELSE @]
    /\ UNCHANGED <<view_vars, file_vars, call_vars, consumer_vars, race_vars,
                   position_table, portfolio_table, last_handled>>

\* KeyboardInterrupt anywhere in the loop: the consumer is closed
LoopInterrupt ==
    /\ choice.pc # "closed"
    /\ choice' = [choice EXCEPT !.pc = "closed"]
    /\ UNCHANGED <<view_vars, file_vars, call_vars, consumer_vars, race_vars,
                   position_table, portfolio_table, last_handled>>

NextLoop ==
    \/ LoopPoll
    \/ LoopDeserialize
    \/ LoopHandle
    \/ LoopHandleDeserializationError
    \/ LoopCommit
    \/ LoopInterrupt

InitLoop ==
    /\ held_secs = {}
    /\ coredb = [i \in Ids |-> 0]
    /\ position_table = NoPositions
    /\ portfolio_table = NoPortfolios
    /\ last_handled = NoHandled
    /\ choice = LoopStart
    /\ ConsumerAtRest
    /\ RepositoryAtRest

\* the while loop of consume, one statement per step
SpecLoop == InitLoop /\ [][NextLoop]_vars

\* the positions of steps at which step is taken
StepsOf(steps, names) == {i \in 1..Len(steps) : steps[i] \in names}

\* C38: for a polled message with a value, handle is called at most once,
\* the offset is committed at most once, the commit / no-commit step comes
\* after the handler has ended, and it has been taken when the loop is back
\* at poll.
C38_HandleAndCommitAtMostOnce ==
    LET handles == StepsOf(choice.steps, {"handle"})
        ended == StepsOf(choice.steps, {"handle", "handle_deserialization_error"})
        decided == StepsOf(choice.steps, {"commit", "no commit"})
    IN  /\ Cardinality(handles) <= 1
        /\ Cardinality(decided) <= 1
        /\ \A i \in decided, j \in ended : j < i
        /\ (choice.pc = "poll" /\ choice.polled > 0)
                => decided = {Len(choice.steps)}

\* the third message was deserialized, handled and committed, and the loop
\* is back at poll
C38_Witness ==
    /\ choice.pc = "poll"
    /\ choice.polled = 3
    /\ choice.steps = <<"deserialize", "handle", "commit">>
    /\ choice.committed = 3

(***************************************************************************)
(* PositionEventHandler returning False                                    *)
(***************************************************************************)
\* C39: whenever PositionEventHandler.handle returns False it has called
\* neither remove_securities nor refresh_for_securities for that event, and
\* the read-model files are as they were before the event.
C39_FalseLeavesViewAlone ==
    [][ ( /\ last_handled'.handler = "PositionEventHandler"
          /\ last_handled'.result = "False" )
        => /\ last_handled'.calls = <<>>
           /\ UNCHANGED file_vars ]_vars

\* the create of a position in A, priced in CoreDB and not held, affected no
\* row: False was returned and the collection of today still has B only
C39_Witness ==
    /\ PositionHandled
    /\ last_handled.result = "False"
    /\ last_handled.sec = "A" /\ ~last_handled.is_deleted
    /\ last_handled.row_cnt = 0
    /\ coredb["A"] = 2
    /\ "A" \notin LiveHeld(position_table)
    /\ PersistedIds(held_file, Today) = {"B"}

====
